---- MODULE Spec2Model ----
(***************************************************************************)
(* A model of the api-gateway: the caller store (quota bookkeeping), the   *)
(* per-caller token-bucket limiter and the /api middleware chain           *)
(* (authenticate, rate limit, quota check, quota deduct, call log, async   *)
(* gate, metrics, proxy handler).                                          *)
(*                                                                         *)
(* Specifications:                                                         *)
(*   StoreSpec   the caller store under any interleaving of its operations *)
(*   Spec        concurrent requests through the /api middleware chain     *)
(*   SeqSpec     the same chain, requests issued one after another against *)
(*               an upstream that answers 200                              *)
(*   LimiterSpec the limiter stage under concurrent requests and time      *)
(*   ReconfSpec  LimiterSpec with admin changes of the caller's qps         *)
(*   SweepSpec   the limiter stage of two callers and the sweeper           *)
(*   SteadySpec  one token bucket under traffic with a constant period     *)
(***************************************************************************)
EXTENDS Integers, Sequences, FiniteSets, TLC

VARIABLES
    clients,    \* caller store: id -> caller document (gw_clients)
    adminOp,    \* StoreSpec: admin status updates between their read and write
    hist,       \* per caller: its balance at the last write other than a deduct
                \* (m0) and, in StoreSpec, the deductions answered since
    req,        \* request id -> the request's gin.Context and position in the chain
    buckets,    \* limiter map: caller id -> token bucket
    now,        \* wall clock, in ticks of 1/TicksPerSec second
    tasks,      \* task store: task id -> task document
    queue,      \* task queue: the tasks as they were enqueued, next to pop first
    stats,      \* per bucket: what the limiter did with it since its creation
    cfg,        \* configuration (auth.enable_signature) and the scenario: whether
                \* the environment may fail, whether requests come one after
                \* another, the X-API-Key values they present
    faults,     \* failures of the store and the queue so far
    traffic,    \* SteadySpec: the arrival pattern and the admission history
    limiter,    \* the limiter's map lock, the sweeper's pass, and the buckets
                \* deleted from the map that a request still holds
    sig,        \* SigSpec: the signed request, the request presented to the
                \* validator, and the validator's answers
    pool,       \* the worker pool: each worker's position and the task it holds
    exchange,   \* the HTTP exchange a specification examines: what came over the
                \* wire, what the handlers made of it, what was sent on
    main        \* the process: how far main has got, and what is still open

vars ==
    <<clients, adminOp, hist, req, buckets, stats, now, tasks, queue, cfg, faults,
      traffic, sig, pool, limiter, exchange, main>>

----------------------------------------------------------------------------
(* Bounds of the model *)

MaxQuota == 2       \* initial call_count of a caller is in 0..MaxQuota
MaxRecharge == 1    \* a recharge adds 1..MaxRecharge
MaxOps == 5         \* store operations in one behaviour of StoreSpec
MaxQPS == 2         \* a caller's qps is in 1..MaxQPS
MaxReqs == 2        \* requests in one behaviour of Spec
MaxSeqReqs == 4     \* requests in one behaviour of SeqSpec
MaxLimReqs == 3     \* requests in one behaviour of LimiterSpec
MaxBurst == 3       \* SteadySpec: arrivals at one instant are in 1..MaxBurst
MaxPeriod == 3      \* SteadySpec: ticks between arrivals are in 1..MaxPeriod
MaxQpsUpdates == 1  \* ReconfSpec: admin changes of a caller's qps in one behaviour
MaxIdles == 1       \* SweepSpec: idle periods of about ten minutes in one behaviour
MaxFaults == 1      \* failures of the store and the queue in one behaviour
WordBits == 11      \* width of the words that stand for int64
MaxWindow == 2      \* auth.signature_time_window is in 0..MaxWindow seconds
MaxWorkers == 2     \* workers of the pool
MaxTasks == 1       \* async submissions in one behaviour of WorkerSpec
MaxTime == 2        \* the clock stops after MaxTime ticks
TicksPerSec == 2    \* clock resolution: ticks per second

(* Program constants *)

DefaultQPS == 10            \* model.NewClient
ClientStatusDisabled == 0
ClientStatusActive == 1

MaxRetries == 3             \* executeCallback: maxRetries
SweepAgeSeconds == 600      \* cleanup: 10 * time.Minute

\* NewRateLimitMiddleware: the map lock free, no sweeper pass under way (at is the
\* time the pass read, todo the buckets it has still to visit, visits what it did
\* with the others), no bucket outside the map.
NoLimiter ==
    [lock |-> "free", swept |-> FALSE, at |-> 0, todo |-> {}, visits |-> {},
     orphans |-> <<>>]

\* No request.
NoRequest ==
    [exists |-> FALSE, method |-> <<>>, path |-> <<>>, timestamp |-> <<>>,
     body |-> <<>>, signature |-> <<>>]

\* The validator before any request: its window, the request a caller signed, the
\* request last presented, the Unix time it was presented at, the validator's
\* answer, and whether the signed request has been accepted again at a later
\* second.
NoSig ==
    [timeWindow |-> 0, signed |-> NoRequest, presented |-> NoRequest, at |-> 0,
     verdict |-> "none", replayed |-> FALSE]

\* The worker pool before Start: no worker.
NoPool ==
    [workers |-> <<>>, log |-> <<>>, ctx |-> "live", stop |-> "none", inflight |-> {}]

\* No exchange under examination.
NoExchange == <<>>

\* main, serving: nothing of the shutdown has happened.
NoMain == [pc |-> "serving", queueOpen |-> TRUE, storesOpen |-> TRUE]

Min(a, b) == IF a < b THEN a ELSE b
Max(a, b) == IF a > b THEN a ELSE b

----------------------------------------------------------------------------
(* The caller store *)

ClientIds == {"c1"}

\* A document that is not in the collection.
NoClient ==
    [exists |-> FALSE, call_count |-> 0, total_count |-> 0, qps |-> 0,
     status |-> 0, version |-> "none"]

\* model.NewClient: both counters start at the initial quota, status active.
NewClient(version, initialCallCount) ==
    [exists |-> TRUE, call_count |-> initialCallCount,
     total_count |-> initialCallCount, qps |-> DefaultQPS,
     status |-> ClientStatusActive, version |-> version]

\* A caller taken as active whatever its status, to show what the claims owe to
\* the status test.
IsActiveAny(c) == c.exists

\* Client.IsActive.
IsActive(c) == c.status = ClientStatusActive

\* A quota test that zero passes, to show what the claims owe to the test.
HasCallsAlways(c) == c.call_count >= 0

\* Client.HasCallsRemaining.
HasCallsRemaining(c) == c.call_count > 0

\* A filter on the id alone, to show what the claims owe to the balance guard.
DeductFilterNoGuard(c) == c.exists

\* The filter of DeductCallCount's findOneAndUpdate: {_id: id, call_count: {$gt: 0}}.
DeductFilter(c) == c.exists /\ c.call_count > 0

\* DeductCallCount: one atomic findOneAndUpdate; dbOk = FALSE is a storage error.
DeductCallCount(cs, id, dbOk) ==
    IF ~dbOk THEN [store |-> cs, err |-> "failed to deduct call count"]
    ELSE IF DeductFilter(cs[id])
         THEN [store |-> [cs EXCEPT ![id].call_count = @ - 1], err |-> "nil"]
         ELSE [store |-> cs, err |-> "insufficient calls"]

\* UpdateCallCount that leaves total_count alone: the mutant of UpdateCallCount.
UpdateCallCountOnly(cs, id, delta, dbOk) ==
    IF ~dbOk THEN [store |-> cs, err |-> "failed to update call count"]
    ELSE IF cs[id].exists
         THEN [store |-> [cs EXCEPT ![id].call_count = @ + delta], err |-> "nil"]
         ELSE [store |-> cs, err |-> "client not found"]

\* UpdateCallCount: $inc call_count by delta, and total_count too when delta > 0.
UpdateCallCount(cs, id, delta, dbOk) ==
    IF ~dbOk THEN [store |-> cs, err |-> "failed to update call count"]
    ELSE IF cs[id].exists
         THEN [store |-> [cs EXCEPT ![id].call_count = @ + delta,
                                    ![id].total_count =
                                        IF delta > 0 THEN @ + delta ELSE @],
               err |-> "nil"]
         ELSE [store |-> cs, err |-> "client not found"]

\* Update: $set of the whole document passed in.
Update(cs, id, doc) ==
    IF cs[id].exists THEN [store |-> [cs EXCEPT ![id] = doc], err |-> "nil"]
    ELSE [store |-> cs, err |-> "client not found"]

\* UpdateQPS: $set qps.
UpdateQPS(cs, id, qps) ==
    IF cs[id].exists THEN [store |-> [cs EXCEPT ![id].qps = qps], err |-> "nil"]
    ELSE [store |-> cs, err |-> "client not found"]

\* Delete: DeleteOne by id.
Delete(cs, id) ==
    IF cs[id].exists THEN [store |-> [cs EXCEPT ![id] = NoClient], err |-> "nil"]
    ELSE [store |-> cs, err |-> "client not found"]

----------------------------------------------------------------------------
(* StoreSpec: the store's operations, each one database round trip *)

NoAdminOp == [active |-> FALSE, doc |-> NoClient]

\* The deductions a caller has seen since the last other write to its document:
\* m0 the balance then, ok / insuf the answers the store gave, last the answer of
\* the latest deduct, ops the store operations applied so far.
NewHist(m, ops) ==
    [m0 |-> m, ok |-> 0, insuf |-> 0, last |-> "none", ops |-> ops]

otherVars ==
    <<req, buckets, stats, now, tasks, queue, cfg, faults, traffic, sig, pool, limiter,
      exchange, main>>

StoreInit ==
    /\ clients = [id \in ClientIds |-> NoClient]
    /\ adminOp = [id \in ClientIds |-> NoAdminOp]
    /\ hist = [id \in ClientIds |-> NewHist(0, 0)]
    /\ req = <<>>
    /\ buckets = <<>>
    /\ now = 0
    /\ tasks = <<>>
    /\ queue = <<>>
    /\ stats = <<>>
    /\ cfg = [enable_signature |-> FALSE, faults |-> TRUE, sequential |-> FALSE,
              keys |-> {}]
    /\ faults = 0
    /\ traffic = <<>>
    /\ sig = NoSig
    /\ pool = NoPool
    /\ limiter = NoLimiter
    /\ exchange = NoExchange
    /\ main = NoMain

\* ClientService.CreateClient / AdminHandler.CreateClient (initial_call_count >= 0).
SCreateClient(id) ==
    /\ hist[id].ops < MaxOps
    /\ ~clients[id].exists
    /\ \E n \in 0..MaxQuota :
        /\ clients' = [clients EXCEPT ![id] = NewClient("v1", n)]
        /\ hist' = [hist EXCEPT ![id] = NewHist(n, @.ops + 1)]
    /\ UNCHANGED <<adminOp, otherVars>>

\* ClientMongoRepository.DeductCallCount, on a present or an absent id.
SDeduct(id) ==
    /\ hist[id].ops < MaxOps
    /\ \E dbOk \in BOOLEAN :
        LET res == DeductCallCount(clients, id, dbOk) IN
        /\ clients' = res.store
        /\ hist' = [hist EXCEPT
                ![id].ok = IF res.err = "nil" THEN @ + 1 ELSE @,
                ![id].insuf = IF res.err = "insufficient calls" THEN @ + 1 ELSE @,
                ![id].last = res.err,
                ![id].ops = @ + 1]
    /\ UNCHANGED <<adminOp, otherVars>>

\* ClientService.RechargeClient: callCount <= 0 is refused before the store.
SRecharge(id) ==
    /\ hist[id].ops < MaxOps
    /\ \E amount \in 0..MaxRecharge :
        IF amount <= 0
        THEN /\ hist' = [hist EXCEPT ![id].ops = @ + 1]
             /\ UNCHANGED clients
        ELSE LET res == UpdateCallCount(clients, id, amount, TRUE) IN
             /\ clients' = res.store
             /\ hist' = [hist EXCEPT
                    ![id] = NewHist(res.store[id].call_count, @.ops + 1)]
    /\ UNCHANGED <<adminOp, otherVars>>

\* ClientService.ConsumeCall: UpdateCallCount(id, -1).
SConsumeCall(id) ==
    /\ hist[id].ops < MaxOps
    /\ LET res == UpdateCallCount(clients, id, -1, TRUE) IN
        /\ clients' = res.store
        /\ hist' = [hist EXCEPT
                ![id] = NewHist(res.store[id].call_count, @.ops + 1)]
    /\ UNCHANGED <<adminOp, otherVars>>

\* ClientService.UpdateClientStatus, first half: GetByID.
SStatusRead(id) ==
    /\ hist[id].ops < MaxOps
    /\ ~adminOp[id].active
    /\ clients[id].exists
    /\ adminOp' = [adminOp EXCEPT ![id] = [active |-> TRUE, doc |-> clients[id]]]
    /\ UNCHANGED <<clients, hist, otherVars>>

\* ClientService.UpdateClientStatus, second half: Update of the document read.
SStatusWrite(id) ==
    /\ adminOp[id].active
    /\ \E status \in {ClientStatusDisabled, ClientStatusActive} :
        LET res == Update(clients, id, [adminOp[id].doc EXCEPT !.status = status]) IN
        /\ clients' = res.store
        /\ hist' = [hist EXCEPT
                ![id] = NewHist(res.store[id].call_count, @.ops + 1)]
    /\ adminOp' = [adminOp EXCEPT ![id] = NoAdminOp]
    /\ UNCHANGED otherVars

\* ClientMongoRepository.UpdateQPS (qps in 1..1000 at the admin surface).
SUpdateQPS(id) ==
    /\ hist[id].ops < MaxOps
    /\ \E q \in 1..MaxQPS :
        clients' = UpdateQPS(clients, id, q).store
    /\ hist' = [hist EXCEPT ![id].ops = @ + 1]
    /\ UNCHANGED <<adminOp, otherVars>>

\* ClientMongoRepository.Delete.
SDelete(id) ==
    /\ hist[id].ops < MaxOps
    /\ clients[id].exists
    /\ clients' = Delete(clients, id).store
    /\ hist' = [hist EXCEPT ![id] = NewHist(0, @.ops + 1)]
    /\ UNCHANGED <<adminOp, otherVars>>

StoreNext ==
    \E id \in ClientIds :
        \/ SCreateClient(id)
        \/ SDeduct(id)
        \/ SRecharge(id)
        \/ SConsumeCall(id)
        \/ SStatusRead(id)
        \/ SStatusWrite(id)
        \/ SUpdateQPS(id)
        \/ SDelete(id)

StoreSpec == StoreInit /\ [][StoreNext]_vars

----------------------------------------------------------------------------
(* The token-bucket limiter *)

NoBucket ==
    [exists |-> FALSE, capacity |-> 0, tokens |-> 0, refillRate |-> 0,
     lastRefill |-> 0]

\* A bucket created with one token too many, to show what the claims owe to the
\* initial fill.
NewTokenBucketOver(capacity, refillRate, t) ==
    [exists |-> TRUE, capacity |-> capacity, tokens |-> capacity + 1,
     refillRate |-> refillRate, lastRefill |-> t]

\* NewTokenBucket: a full bucket stamped with the creation time.
NewTokenBucket(capacity, refillRate, t) ==
    [exists |-> TRUE, capacity |-> capacity, tokens |-> capacity,
     refillRate |-> refillRate, lastRefill |-> t]

\* A refill by elapsed ticks instead of whole elapsed seconds, to show what the
\* claims owe to the truncation.
TakeTokenPerTick(b, t) ==
    LET tokensToAdd == (t - b.lastRefill) * b.refillRate
        filled == IF tokensToAdd > 0
                  THEN [b EXCEPT !.tokens = Min(b.tokens + tokensToAdd, b.capacity),
                                 !.lastRefill = t]
                  ELSE b
    IN  IF filled.tokens > 0
        THEN [bucket |-> [filled EXCEPT !.tokens = @ - 1], ok |-> TRUE]
        ELSE [bucket |-> filled, ok |-> FALSE]

\* TakeToken under the bucket's mutex at time t: refill by whole elapsed seconds
\* times the rate, capped; last_refill advances only when something was added.
TakeToken(b, t) ==
    LET elapsedSeconds == (t - b.lastRefill) \div TicksPerSec
        tokensToAdd == elapsedSeconds * b.refillRate
        filled == IF tokensToAdd > 0
                  THEN [b EXCEPT !.tokens = Min(b.tokens + tokensToAdd, b.capacity),
                                 !.lastRefill = t]
                  ELSE b
    IN  IF filled.tokens > 0
        THEN [bucket |-> [filled EXCEPT !.tokens = @ - 1], ok |-> TRUE]
        ELSE [bucket |-> filled, ok |-> FALSE]

\* getOrCreateBucket, the branch taken when the read-locked lookup found a bucket:
\* under the bucket's mutex, follow a changed QPS.
Reconfigure(b, qps) ==
    IF b.refillRate # qps
    THEN [b EXCEPT !.refillRate = qps, !.capacity = qps,
                   !.tokens = Min(b.tokens, qps)]
    ELSE b

\* getOrCreateBucket, the branch taken when the lookup found none: under the map's
\* write lock, return the bucket another request created meanwhile, or create one.
CreateOrGet(b, qps, t) ==
    IF b.exists THEN b ELSE NewTokenBucket(qps, qps, t)

\* What the limiter did with a bucket since it was created: requests admitted and
\* refused, and whether it is still as created (never refilled or reconfigured).
NoStats == [adm |-> 0, rej |-> 0, fresh |-> FALSE]

----------------------------------------------------------------------------
(* Tasks: the task document and the task store *)

\* A *time.Time that is nil.
NilTime == -1

TaskStatusPending == "pending"
TaskStatusProcessing == "processing"
TaskStatusSuccess == "success"
TaskStatusFailed == "failed"
TaskStatusTimeout == "timeout"

\* X-Callback-URL of an async submission.
CallbackURL == "http://cb/ok"

\* An id that is the same for every caller: the mutant of Hex.
HexOfNone(id) == "0x"

\* client.ID.Hex(): the caller's id as a string.
Hex(id) == "0x" \o id

\* model.NewTask: the fields the worker and the store act on.
NewTask(taskID, clientID, callbackURL, t) ==
    [task_id |-> taskID, client_id |-> clientID, callback_url |-> callbackURL,
     status |-> TaskStatusPending, status_code |-> 0,
     callback_attempts |-> 0, callback_status |-> "",
     created_at |-> t, started_at |-> NilTime, completed_at |-> NilTime]

\* Task.IsCompleted
IsCompleted(task) ==
    task.status \in {TaskStatusSuccess, TaskStatusFailed, TaskStatusTimeout}

\* Task.MarkProcessing
MarkProcessing(task, t) ==
    [task EXCEPT !.status = TaskStatusProcessing, !.started_at = t]

\* Task.MarkSuccess that leaves completed_at alone: the mutant of MarkSuccess.
MarkSuccessNoTime(task, statusCode, t) ==
    [task EXCEPT !.status = TaskStatusSuccess, !.status_code = statusCode]

\* Task.MarkSuccess
MarkSuccess(task, statusCode, t) ==
    [task EXCEPT !.status = TaskStatusSuccess, !.status_code = statusCode,
                 !.completed_at = t]

\* Task.MarkFailed that leaves the status alone: the mutant of MarkFailed.
MarkFailedKeepStatus(task, statusCode, t) ==
    [task EXCEPT !.status_code = statusCode, !.completed_at = t]

\* Task.MarkFailed
MarkFailed(task, statusCode, t) ==
    [task EXCEPT !.status = TaskStatusFailed, !.status_code = statusCode,
                 !.completed_at = t]

\* The fields of a task that have omitempty in their json tag, and the value at
\* which each is left out.
OmitEmpty ==
    [status_code |-> 0, callback_status |-> "", started_at |-> NilTime,
     completed_at |-> NilTime]

\* json.Marshal(task): the members of the JSON object.
Marshal(task) ==
    LET kept == {f \in DOMAIN task :
                    ~(f \in DOMAIN OmitEmpty /\ task[f] = OmitEmpty[f])}
    IN  [f \in kept |-> task[f]]

\* json.Unmarshal(data, &task) into a zero Task.
Unmarshal(data) ==
    LET zero == [task_id |-> 0, client_id |-> "", callback_url |-> "", status |-> "",
                 status_code |-> 0, callback_attempts |-> 0, callback_status |-> "",
                 created_at |-> 0, started_at |-> NilTime, completed_at |-> NilTime]
    IN  [f \in DOMAIN zero |-> IF f \in DOMAIN data THEN data[f] ELSE zero[f]]

\* RPUSH, at the end BRPOP takes from: the mutant of LPush.
RPush(q, data) == <<data>> \o q

\* LPUSH: the new element is the last one BRPOP will come to.
LPush(q, data) == Append(q, data)

\* taskMongoRepository.Create: InsertOne.
TaskCreate(ts, task) == ts @@ (task.task_id :> task)

\* taskMongoRepository.Update: ReplaceOne by task_id, no upsert.
TaskUpdate(ts, task) ==
    IF task.task_id \in DOMAIN ts THEN [ts EXCEPT ![task.task_id] = task] ELSE ts

\* taskMongoRepository.IncrementCallbackAttempts: $inc by task_id.
IncrementCallbackAttempts(ts, taskID) ==
    IF taskID \in DOMAIN ts
    THEN [ts EXCEPT ![taskID].callback_attempts = @ + 1]
    ELSE ts

----------------------------------------------------------------------------
(* The /api middleware chain *)

\* SetupRouter: the handlers of a business route, in the order of api.Use.
Chain ==
    <<"Authenticate", "RateLimit", "CheckCalls", "DeductCalls", "LogAPICall",
      "HandleAsync", "Monitor", "ProxyRequest">>

\* The handlers with code after c.Next().
PostStages == {"DeductCalls", "LogAPICall"}

\* config targets: the versions that have an upstream.
Targets == {"v1"}

Versions == {"v1", "v9"}

\* X-API-Key values: absent, unknown, the key of caller c1.
Keys == {"", "bad", "k1"}

KeyOf(id) == IF id = "c1" THEN "k1" ELSE "k2"

\* GetByAPIKey: FindOne by api_key.
GetByAPIKey(cs, key, dbOk) ==
    IF ~dbOk THEN [id |-> "none", err |-> "failed to get client by API key"]
    ELSE IF \E id \in DOMAIN cs : cs[id].exists /\ KeyOf(id) = key
         THEN [id |-> CHOOSE id \in DOMAIN cs : cs[id].exists /\ KeyOf(id) = key,
               err |-> "nil"]
         ELSE [id |-> "none", err |-> "client not found"]

\* A request that has not arrived yet: its gin.Context and what it did. snap is
\* the context key "client" (the caller document read at authentication), lookup
\* the answer of the store at authentication, status 0 is nothing written, ran the
\* handlers entered, in order. RateLimit's local bucket, from getOrCreateBucket to
\* TakeToken: path is the branch getOrCreateBucket took, ret the bucket as it
\* returned it, ref where the bucket is (0: in the map, k: limiter.orphans[k]).
NewReq ==
    [dir |-> "down", idx |-> 1, sub |-> 0, aborted |-> FALSE,
     key |-> "", lookup |-> "none", async |-> FALSE,
     client |-> "none", snap |-> NoClient, apiKeySet |-> FALSE,
     checked |-> FALSE, status |-> 0, code |-> 0,
     ran |-> <<>>, ref |-> 0, path |-> "none", ret |-> NoBucket,
     token |-> "none", upstream |-> FALSE,
     task |-> FALSE, enqueued |-> FALSE, deducted |-> 0, logged |-> 0]

\* c.JSON(status, body): the first write fixes the response status.
JSON(rq, status, code) ==
    IF rq.status = 0 THEN [rq EXCEPT !.status = status, !.code = code] ELSE rq

\* c.Writer.Status(): 200 until something is written.
WriterStatus(rq) == IF rq.status = 0 THEN 200 ELSE rq.status

\* An abort that leaves the context as it was: the mutant of Abort.
AbortIgnored(rq) == rq

\* c.Abort().
Abort(rq) == [rq EXCEPT !.aborted = TRUE]

\* An error answer that lets the chain go on, to show what the claims owe to the
\* abort.
RespondWithoutAbort(rq, status, code) == JSON(rq, status, code)

\* errors.RespondWithError: c.JSON then c.Abort.
RespondWithError(rq, status, code) == Abort(JSON(rq, status, code))

\* The highest handler below position i that has code after its c.Next(), or 0.
PostBelow(i) ==
    LET S == {j \in 1..(i - 1) : Chain[j] \in PostStages}
    IN  IF S = {} THEN 0 ELSE CHOOSE j \in S : \A k \in S : k <= j

\* Control returns to the handlers that called c.Next().
Unwind(rq) ==
    LET j == PostBelow(rq.idx)
    IN  [rq EXCEPT !.dir = IF j = 0 THEN "done" ELSE "up", !.idx = j, !.sub = 0]

\* What gin does when the handler at rq.idx returns: an aborted context, or the
\* end of the chain, returns to the callers; otherwise the next handler runs.
Continue(rq) ==
    IF rq.aborted \/ rq.idx = Len(Chain)
    THEN Unwind(rq)
    ELSE [rq EXCEPT !.idx = @ + 1, !.sub = 0]

AtStage(r, name, sub) ==
    /\ req[r].dir = "down"
    /\ Chain[req[r].idx] = name
    /\ req[r].sub = sub

Entered(rq) == [rq EXCEPT !.ran = Append(@, Chain[rq.idx])]

Arrived(r) == req[r].ran # <<>>

Done(r) == req[r].dir = "done"

\* The answers the environment may give: a store or queue operation fails at most
\* MaxFaults times in a behaviour, and never in a fault-free scenario.
DbOutcomes == IF cfg.faults /\ faults < MaxFaults THEN BOOLEAN ELSE {TRUE}

Faulted(ok) == faults' = IF ok THEN faults ELSE faults + 1

\* The same for a handler of the running process: an operation on a store or a
\* queue that main has closed fails.
StoreOutcomes == IF main.storesOpen THEN DbOutcomes ELSE {FALSE}

QueueOutcomes == IF main.queueOpen THEN DbOutcomes ELSE {FALSE}

\* The upstream's answers: a status, or a transport error of one of the three
\* kinds handleUpstreamError tells apart.
UpstreamOutcomes ==
    IF cfg.faults THEN {"200", "500", "timeout", "refused", "other"} ELSE {"200"}

storeVars == <<adminOp, hist>>

\* AuthMiddleware.Authenticate, the first handler a request runs. Requests are
\* numbered in their order of arrival.
Authenticate(r) ==
    /\ AtStage(r, "Authenticate", 0)
    /\ \A q \in DOMAIN req : q < r => Arrived(q)
    /\ cfg.sequential => \A q \in DOMAIN req : Arrived(q) => Done(q)
    /\ \E key \in cfg.keys,
          sigValid \in (IF cfg.enable_signature THEN BOOLEAN ELSE {TRUE}),
          dbOk \in DbOutcomes :
        LET got == GetByAPIKey(clients, key, dbOk)
            rq == [Entered(req[r]) EXCEPT
                        !.key = key,
                        !.lookup = IF key = "" THEN "none" ELSE got.err]
            out ==
                IF key = "" THEN RespondWithError(rq, 401, 40001)
                ELSE IF got.err = "client not found"
                     THEN RespondWithError(rq, 401, 40001)
                ELSE IF got.err # "nil" THEN Abort(JSON(rq, 500, 50000))
                ELSE IF ~IsActive(clients[got.id])
                     THEN RespondWithError(rq, 403, 40002)
                ELSE IF cfg.enable_signature /\ ~sigValid
                     THEN Abort(JSON(rq, 401, 40105))
                ELSE [rq EXCEPT !.client = got.id, !.snap = clients[got.id],
                                !.apiKeySet = TRUE]
        IN  /\ key # "" => Faulted(dbOk)
            /\ key = "" => dbOk /\ UNCHANGED faults
            /\ req' = [req EXCEPT ![r] = Continue(out)]
    /\ UNCHANGED <<clients, buckets, stats, now, tasks, queue, cfg, storeVars, traffic, sig, pool, limiter,
                   exchange, main>>

\* RateLimitMiddleware.RateLimit, up to the read-locked lookup of getOrCreateBucket.
RateLimit(r) ==
    /\ AtStage(r, "RateLimit", 0)
    /\ limiter.lock = "free"
    /\ LET rq == Entered(req[r]) IN
        req' = [req EXCEPT ![r] =
                    IF ~rq.snap.exists THEN Continue(Abort(JSON(rq, 500, 50000)))
                    ELSE IF buckets[rq.client].exists THEN [rq EXCEPT !.sub = 1]
                    ELSE [rq EXCEPT !.sub = 2]]
    /\ UNCHANGED <<clients, buckets, stats, now, tasks, queue, cfg, faults, storeVars, traffic, sig, pool, limiter,
                   exchange, main>>

\* The bucket a request holds.
Held(r) ==
    IF req[r].ref = 0 THEN buckets[req[r].client] ELSE limiter.orphans[req[r].ref]

\* getOrCreateBucket: the rest of it, on the branch the lookup chose. The branch
\* that creates needs the map's write lock.
GetOrCreateBucket(r) ==
    /\ req[r].dir = "down" /\ Chain[req[r].idx] = "RateLimit"
    /\ req[r].sub \in {1, 2}
    /\ req[r].sub = 2 => limiter.lock = "free"
    /\ LET id == req[r].client
           old == Held(r)
           b == IF req[r].sub = 1
                THEN Reconfigure(old, req[r].snap.qps)
                ELSE CreateOrGet(old, req[r].snap.qps, now)
           path == IF req[r].sub = 1 THEN "existing"
                   ELSE IF old.exists THEN "found" ELSE "created"
       IN  /\ IF req[r].ref = 0
              THEN /\ buckets' = [buckets EXCEPT ![id] = b]
                   /\ stats' = [stats EXCEPT ![id] =
                        IF ~old.exists THEN [adm |-> 0, rej |-> 0, fresh |-> TRUE]
                        ELSE [@ EXCEPT !.fresh = @ /\ b = old]]
                   /\ UNCHANGED limiter
              ELSE /\ limiter' = [limiter EXCEPT !.orphans[req[r].ref] = b]
                   /\ UNCHANGED <<buckets, stats>>
           /\ req' = [req EXCEPT ![r].sub = 3, ![r].ret = b, ![r].path = path]
    /\ UNCHANGED <<clients, now, tasks, queue, cfg, faults, storeVars, traffic, sig, pool,
                   exchange, main>>

\* RateLimit: bucket.TakeToken() and the answer.
TakeTokenStep(r) ==
    /\ AtStage(r, "RateLimit", 3)
    /\ LET id == req[r].client
           res == TakeToken(Held(r), now)
           rq == [req[r] EXCEPT !.token = IF res.ok THEN "taken" ELSE "refused",
                                !.ref = 0, !.path = "none", !.ret = NoBucket]
       IN  /\ IF req[r].ref = 0
              THEN /\ buckets' = [buckets EXCEPT ![id] = res.bucket]
                   /\ stats' = [stats EXCEPT ![id] =
                        [adm |-> IF res.ok THEN @.adm + 1 ELSE @.adm,
                         rej |-> IF res.ok THEN @.rej ELSE @.rej + 1,
                         fresh |-> @.fresh
                                   /\ res.bucket.lastRefill = buckets[id].lastRefill]]
                   /\ UNCHANGED limiter
              ELSE /\ limiter' = [limiter EXCEPT !.orphans[req[r].ref] = res.bucket]
                   /\ UNCHANGED <<buckets, stats>>
           /\ req' = [req EXCEPT ![r] =
                    IF res.ok THEN Continue(rq)
                    ELSE Continue(RespondWithError(rq, 429, 42902))]
    /\ UNCHANGED <<clients, now, tasks, queue, cfg, faults, storeVars, traffic, sig, pool,
                   exchange, main>>

\* BillingMiddleware.CheckCalls: decides on the caller document read at
\* authentication.
CheckCalls(r) ==
    /\ AtStage(r, "CheckCalls", 0)
    /\ LET rq == Entered(req[r]) IN
        req' = [req EXCEPT ![r] =
                    IF ~rq.snap.exists THEN Continue(Abort(JSON(rq, 500, 50000)))
                    ELSE IF ~HasCallsRemaining(rq.snap)
                         THEN Continue(RespondWithError(rq, 402, 40301))
                    ELSE Continue([rq EXCEPT !.checked = TRUE])]
    /\ UNCHANGED <<clients, buckets, stats, now, tasks, queue, cfg, faults, storeVars, traffic, sig, pool, limiter,
                   exchange, main>>

\* BillingMiddleware.DeductCalls, before c.Next(): nothing.
DeductCalls(r) ==
    /\ AtStage(r, "DeductCalls", 0)
    /\ req' = [req EXCEPT ![r] = Continue(Entered(req[r]))]
    /\ UNCHANGED <<clients, buckets, stats, now, tasks, queue, cfg, faults, storeVars, traffic, sig, pool, limiter,
                   exchange, main>>

\* LoggingMiddleware.LogAPICall, before c.Next(): needs the caller in the context.
LogAPICall(r) ==
    /\ AtStage(r, "LogAPICall", 0)
    /\ LET rq == Entered(req[r]) IN
        req' = [req EXCEPT ![r] =
                    IF ~rq.snap.exists THEN Continue(RespondWithError(rq, 401, 40001))
                    ELSE Continue(rq)]
    /\ UNCHANGED <<clients, buckets, stats, now, tasks, queue, cfg, faults, storeVars, traffic, sig, pool, limiter,
                   exchange, main>>

\* AsyncMiddleware.HandleAsync, up to taskRepo.Create. An async request carries
\* X-Async: true and a callback URL; its task id is a fresh uuid, here the number
\* of the request.
HandleAsync(r) ==
    /\ AtStage(r, "HandleAsync", 0)
    /\ \E async \in (IF cfg.sequential THEN {FALSE} ELSE BOOLEAN),
          dbOk \in BOOLEAN :
        LET rq == [Entered(req[r]) EXCEPT !.async = async]
            creates == async /\ rq.snap.exists /\ rq.snap.version \in Targets
        IN  /\ creates => dbOk \in StoreOutcomes /\ Faulted(dbOk)
            /\ ~creates => dbOk /\ UNCHANGED faults
            /\ req' = [req EXCEPT ![r] =
                    IF ~async THEN Continue(rq)
                    ELSE IF ~rq.snap.exists THEN Continue(Abort(JSON(rq, 500, 50000)))
                    ELSE IF rq.snap.version \notin Targets
                         THEN Continue(Abort(JSON(rq, 400, 40000)))
                    ELSE IF ~dbOk THEN Continue(Abort(JSON(rq, 500, 50000)))
                    ELSE [rq EXCEPT !.task = TRUE, !.sub = 1]]
            /\ tasks' = IF creates /\ dbOk
                        THEN TaskCreate(tasks, NewTask(r, Hex(rq.client), CallbackURL, now))
                        ELSE tasks
    /\ UNCHANGED <<clients, buckets, stats, now, queue, cfg, storeVars, traffic, sig, pool, limiter,
                   exchange, main>>

\* HandleAsync: taskQueue.Enqueue (LPUSH of the task's JSON) and the answer.
AsyncEnqueue(r) ==
    /\ AtStage(r, "HandleAsync", 1)
    /\ \E qOk \in QueueOutcomes :
        /\ Faulted(qOk)
        /\ queue' = IF qOk THEN LPush(queue, Marshal(tasks[r])) ELSE queue
        /\ req' = [req EXCEPT ![r] =
                IF qOk
                THEN Continue(Abort(JSON([req[r] EXCEPT !.enqueued = TRUE], 200, 0)))
                ELSE Continue(Abort(JSON(req[r], 503, 50300)))]
    /\ UNCHANGED <<clients, buckets, stats, now, tasks, cfg, storeVars, traffic, sig, pool, limiter,
                   exchange, main>>

\* PrometheusMiddleware.Monitor: metrics only.
Monitor(r) ==
    /\ AtStage(r, "Monitor", 0)
    /\ req' = [req EXCEPT ![r] = Continue(Entered(req[r]))]
    /\ UNCHANGED <<clients, buckets, stats, now, tasks, queue, cfg, faults, storeVars, traffic, sig, pool, limiter,
                   exchange, main>>

\* ProxyHandler.ProxyRequest with handleUpstreamError / forwardResponse.
ProxyRequest(r) ==
    /\ AtStage(r, "ProxyRequest", 0)
    /\ \E up \in UpstreamOutcomes :
        LET rq == Entered(req[r]) IN
        req' = [req EXCEPT ![r] =
            IF ~rq.snap.exists THEN Continue(JSON(rq, 500, 50000))
            ELSE IF rq.snap.version \notin Targets
                 THEN Continue(RespondWithError(rq, 400, 40004))
            ELSE LET called == [rq EXCEPT !.upstream = TRUE] IN
                 IF up = "timeout" THEN Continue(RespondWithError(called, 504, 50401))
                 ELSE IF up \in {"refused", "other"}
                      THEN Continue(RespondWithError(called, 502, 50402))
                 ELSE IF up = "500" THEN Continue(JSON(called, 500, 0))
                 ELSE Continue(JSON(called, 200, 0))]
    /\ UNCHANGED <<clients, buckets, stats, now, tasks, queue, cfg, faults, storeVars, traffic, sig, pool, limiter,
                   exchange, main>>

\* LogAPICall, after c.Next(): the record of the call, with the status captured.
LogAPICallAfter(r) ==
    /\ req[r].dir = "up" /\ Chain[req[r].idx] = "LogAPICall"
    /\ req' = [req EXCEPT ![r] = Unwind([req[r] EXCEPT !.logged = WriterStatus(req[r])])]
    /\ UNCHANGED <<clients, buckets, stats, now, tasks, queue, cfg, faults, storeVars, traffic, sig, pool, limiter,
                   exchange, main>>

\* A test on the billing mark and the caller alone, to show what the claims owe
\* to the test on the response status.
SkipDeductAnyStatus(rq) == ~rq.checked \/ ~rq.snap.exists

\* DeductCalls, after c.Next(): the early returns before the deduction.
SkipDeduct(rq) == WriterStatus(rq) # 200 \/ ~rq.checked \/ ~rq.snap.exists

\* DeductCalls, after c.Next(), that answers a failed deduction with an error:
\* the mutant of DeductCallsAfter.
DeductCallsAfterAnswering(r) ==
    /\ req[r].dir = "up" /\ Chain[req[r].idx] = "DeductCalls"
    /\ \E dbOk \in BOOLEAN :
        LET rq == req[r]
            res == DeductCallCount(clients, rq.client, dbOk)
        IN  IF SkipDeduct(rq)
            THEN /\ dbOk
                 /\ req' = [req EXCEPT ![r] = Unwind(rq)]
                 /\ UNCHANGED <<clients, faults>>
            ELSE /\ dbOk \in StoreOutcomes
                 /\ Faulted(dbOk)
                 /\ clients' = res.store
                 /\ req' = [req EXCEPT ![r] =
                        Unwind(IF res.err = "nil"
                               THEN [rq EXCEPT !.deducted = @ + 1]
                               ELSE [rq EXCEPT !.status = 500, !.code = 50000])]
    /\ UNCHANGED <<buckets, stats, now, tasks, queue, cfg, storeVars, traffic, sig,
                   pool, limiter, exchange, main>>

\* DeductCalls, after c.Next(): deduct when the response status is 200; a failed
\* deduction is logged and changes nothing.
DeductCallsAfter(r) ==
    /\ req[r].dir = "up" /\ Chain[req[r].idx] = "DeductCalls"
    /\ \E dbOk \in BOOLEAN :
        LET rq == req[r]
            skip == SkipDeduct(rq)
            res == DeductCallCount(clients, rq.client, dbOk)
        IN  IF skip
            THEN /\ dbOk
                 /\ req' = [req EXCEPT ![r] = Unwind(rq)]
                 /\ UNCHANGED <<clients, faults>>
            ELSE /\ dbOk \in StoreOutcomes
                 /\ Faulted(dbOk)
                 /\ clients' = res.store
                 /\ req' = [req EXCEPT ![r] =
                        Unwind([rq EXCEPT
                            !.deducted = IF res.err = "nil" THEN @ + 1 ELSE @])]
    /\ UNCHANGED <<buckets, stats, now, tasks, queue, cfg, storeVars, traffic, sig, pool, limiter,
                   exchange, main>>

\* Time passes.
Tick ==
    /\ now < MaxTime
    /\ now' = now + 1
    /\ UNCHANGED <<clients, req, buckets, stats, tasks, queue, cfg, faults, storeVars, traffic, sig, pool, limiter,
                   exchange, main>>

\* One caller, created with no quota, one call or the most, with any version,
\* and given the least or the most QPS and any status since; hist keeps its
\* balance at the start.
InitCaller ==
    \E n \in {0, 1, MaxQuota}, q \in {1, MaxQPS}, v \in Versions,
       s \in {ClientStatusDisabled, ClientStatusActive} :
        /\ clients = [id \in ClientIds |->
                        [NewClient(v, n) EXCEPT !.qps = q, !.status = s]]
        /\ hist = [id \in ClientIds |-> NewHist(n, 0)]

InitRest(n) ==
    /\ adminOp = [id \in ClientIds |-> NoAdminOp]
    /\ req = [r \in 1..n |-> NewReq]
    /\ buckets = [id \in ClientIds |-> NoBucket]
    /\ stats = [id \in ClientIds |-> NoStats]
    /\ now = 0
    /\ tasks = <<>>
    /\ queue = <<>>
    /\ faults = 0
    /\ traffic = <<>>
    /\ sig = NoSig
    /\ pool = NoPool
    /\ limiter = NoLimiter
    /\ exchange = NoExchange
    /\ main = NoMain

\* Spec: MaxReqs requests, all within one second, in any interleaving, with any
\* answers of the store, the queue and the upstream.
Init ==
    /\ InitCaller
    /\ \E e \in BOOLEAN :
        cfg = [enable_signature |-> e, faults |-> TRUE, sequential |-> FALSE,
              keys |-> Keys]
    /\ InitRest(MaxReqs)

Next ==
    \/ \E r \in DOMAIN req : Authenticate(r)
    \/ \E r \in DOMAIN req : RateLimit(r)
    \/ \E r \in DOMAIN req : GetOrCreateBucket(r)
    \/ \E r \in DOMAIN req : TakeTokenStep(r)
    \/ \E r \in DOMAIN req : CheckCalls(r)
    \/ \E r \in DOMAIN req : DeductCalls(r)
    \/ \E r \in DOMAIN req : LogAPICall(r)
    \/ \E r \in DOMAIN req : HandleAsync(r)
    \/ \E r \in DOMAIN req : AsyncEnqueue(r)
    \/ \E r \in DOMAIN req : Monitor(r)
    \/ \E r \in DOMAIN req : ProxyRequest(r)
    \/ \E r \in DOMAIN req : LogAPICallAfter(r)
    \/ \E r \in DOMAIN req : DeductCallsAfter(r)

Spec == Init /\ [][Next]_vars

----------------------------------------------------------------------------
(* SeqSpec: one caller, active, with the default QPS; its synchronous requests
   issued one after another; store, queue and upstream in good health *)

SeqInit ==
    /\ \E n \in 0..MaxQuota :
        /\ clients = [id \in ClientIds |-> NewClient("v1", n)]
        /\ hist = [id \in ClientIds |-> NewHist(n, 0)]
    /\ cfg = [enable_signature |-> FALSE, faults |-> FALSE, sequential |-> TRUE,
              keys |-> {"k1"}]
    /\ InitRest(MaxSeqReqs)

SeqNext ==
    \/ \E r \in DOMAIN req : Authenticate(r)
    \/ \E r \in DOMAIN req : RateLimit(r)
    \/ \E r \in DOMAIN req : GetOrCreateBucket(r)
    \/ \E r \in DOMAIN req : TakeTokenStep(r)
    \/ \E r \in DOMAIN req : CheckCalls(r)
    \/ \E r \in DOMAIN req : DeductCalls(r)
    \/ \E r \in DOMAIN req : LogAPICall(r)
    \/ \E r \in DOMAIN req : HandleAsync(r)
    \/ \E r \in DOMAIN req : Monitor(r)
    \/ \E r \in DOMAIN req : ProxyRequest(r)
    \/ \E r \in DOMAIN req : LogAPICallAfter(r)
    \/ \E r \in DOMAIN req : DeductCallsAfter(r)
    \/ Tick

SeqSpec == SeqInit /\ [][SeqNext]_vars

----------------------------------------------------------------------------
(* LimiterSpec: requests of one caller up to the end of the limiter stage, in any
   interleaving, while time passes *)

LimiterInit ==
    /\ \E q \in 1..MaxQPS :
        clients = [id \in ClientIds |-> [NewClient("v1", MaxQuota) EXCEPT !.qps = q]]
    /\ hist = [id \in ClientIds |-> NewHist(MaxQuota, 0)]
    /\ cfg = [enable_signature |-> FALSE, faults |-> FALSE, sequential |-> FALSE,
              keys |-> Keys]
    /\ InitRest(MaxLimReqs)

LimiterNext ==
    \/ \E r \in DOMAIN req : Authenticate(r)
    \/ \E r \in DOMAIN req : RateLimit(r)
    \/ \E r \in DOMAIN req : GetOrCreateBucket(r)
    \/ \E r \in DOMAIN req : TakeTokenStep(r)
    \/ Tick

LimiterSpec == LimiterInit /\ [][LimiterNext]_vars

----------------------------------------------------------------------------
(* ReconfSpec: the limiter stage while an admin changes the caller's qps, so that
   requests in flight carry different qps values *)

\* AdminHandler.UpdateClientQPS: qps in 1..1000, stored by UpdateQPS.
AdminUpdateQPS ==
    \E id \in ClientIds :
        /\ hist[id].ops < MaxQpsUpdates
        /\ \E q \in 1..MaxQPS :
            /\ q # clients[id].qps
            /\ clients' = UpdateQPS(clients, id, q).store
        /\ hist' = [hist EXCEPT ![id].ops = @ + 1]
        /\ UNCHANGED <<adminOp, otherVars>>

ReconfInit ==
    /\ \E q \in 1..MaxQPS :
        clients = [id \in ClientIds |-> [NewClient("v1", MaxQuota) EXCEPT !.qps = q]]
    /\ hist = [id \in ClientIds |-> NewHist(MaxQuota, 0)]
    /\ cfg = [enable_signature |-> FALSE, faults |-> FALSE, sequential |-> FALSE,
              keys |-> {"k1"}]
    /\ InitRest(MaxReqs)

ReconfNext ==
    \/ \E r \in DOMAIN req : Authenticate(r)
    \/ \E r \in DOMAIN req : RateLimit(r)
    \/ \E r \in DOMAIN req : GetOrCreateBucket(r)
    \/ \E r \in DOMAIN req : TakeTokenStep(r)
    \/ AdminUpdateQPS
    \/ Tick

ReconfSpec == ReconfInit /\ [][ReconfNext]_vars

----------------------------------------------------------------------------
(* SweepSpec: requests of two callers up to the end of the limiter stage, the
   sweeper's passes, and idle periods of about ten minutes. At the start each
   caller has a bucket, created by a request that took one token: c1's a tick
   ago, c2's now *)

SweepIds == {"c1", "c2"}

\* cleanup: ten minutes, in ticks.
SweepAge == SweepAgeSeconds * TicksPerSec

\* A test that also evicts a bucket exactly ten minutes old, to show what the
\* claims owe to the strict comparison.
StaleOrEqual(b, t) == t - b.lastRefill >= SweepAge

\* cleanup: now.Sub(bucket.lastRefill) > 10*time.Minute.
Stale(b, t) == t - b.lastRefill > SweepAge

\* cleanup, one pass begins: the map's write lock is taken and the time read.
SweepBegin ==
    /\ limiter.lock = "free"
    /\ limiter' = [limiter EXCEPT
            !.lock = "sweeper", !.swept = TRUE, !.at = now,
            !.todo = {id \in DOMAIN buckets : buckets[id].exists},
            !.visits = {}]
    /\ UNCHANGED <<clients, req, buckets, stats, now, tasks, queue, cfg, faults,
                   storeVars, traffic, sig, pool,
                   exchange, main>>

\* cleanup, one bucket of the range loop, under the bucket's mutex: delete it from
\* the map when stale. A request that has looked the bucket up keeps it.
SweepVisit(id) ==
    /\ limiter.lock = "sweeper"
    /\ id \in limiter.todo
    /\ LET b == buckets[id]
           stale == Stale(b, limiter.at)
           holders == {r \in DOMAIN req :
                        /\ req[r].dir = "down" /\ Chain[req[r].idx] = "RateLimit"
                        /\ req[r].sub \in {1, 3}
                        /\ req[r].client = id /\ req[r].ref = 0}
           kept == stale /\ holders # {}
           visit == [id |-> id, last |-> b.lastRefill, deleted |-> stale]
       IN  /\ buckets' = IF stale THEN [buckets EXCEPT ![id] = NoBucket] ELSE buckets
           /\ stats' = IF stale THEN [stats EXCEPT ![id] = NoStats] ELSE stats
           /\ limiter' = [limiter EXCEPT
                    !.todo = @ \ {id},
                    !.visits = @ \cup {visit},
                    !.orphans = IF kept THEN Append(@, b) ELSE @]
           /\ req' = [r \in DOMAIN req |->
                    IF kept /\ r \in holders
                    THEN [req[r] EXCEPT !.ref = Len(limiter.orphans) + 1]
                    ELSE req[r]]
    /\ UNCHANGED <<clients, now, tasks, queue, cfg, faults, storeVars, traffic, sig, pool,
                   exchange, main>>

\* cleanup, the pass ends: the write lock is released.
SweepEnd ==
    /\ limiter.lock = "sweeper"
    /\ limiter.todo = {}
    /\ limiter' = [limiter EXCEPT !.lock = "free"]
    /\ UNCHANGED <<clients, req, buckets, stats, now, tasks, queue, cfg, faults,
                   storeVars, traffic, sig, pool,
                   exchange, main>>

\* Ten minutes pass, or ten minutes and a tick.
Idle ==
    /\ now < MaxIdles * SweepAge
    /\ \E d \in {SweepAge, SweepAge + 1} : now' = now + d
    /\ UNCHANGED <<clients, req, buckets, stats, tasks, queue, cfg, faults,
                   storeVars, traffic, sig, pool, limiter,
                   exchange, main>>

SweepInit ==
    /\ \E q \in 1..MaxQPS :
        clients = [id \in SweepIds |-> [NewClient("v1", MaxQuota) EXCEPT !.qps = q]]
    /\ hist = [id \in SweepIds |-> NewHist(MaxQuota, 0)]
    /\ adminOp = [id \in SweepIds |-> NoAdminOp]
    /\ req = [r \in 1..Cardinality(SweepIds) |-> NewReq]
    /\ buckets = [id \in SweepIds |->
            LET qps == clients[id].qps
                b == NewTokenBucket(qps, qps, IF id = "c1" THEN 0 ELSE 1)
            IN  TakeToken(b, 1).bucket]
    /\ stats = [id \in SweepIds |-> [adm |-> 1, rej |-> 0, fresh |-> TRUE]]
    /\ now = 1
    /\ tasks = <<>>
    /\ queue = <<>>
    /\ cfg = [enable_signature |-> FALSE, faults |-> FALSE, sequential |-> FALSE,
              keys |-> {KeyOf(id) : id \in SweepIds}]
    /\ faults = 0
    /\ traffic = <<>>
    /\ sig = NoSig
    /\ pool = NoPool
    /\ limiter = NoLimiter
    /\ exchange = NoExchange
    /\ main = NoMain

SweepNext ==
    \/ \E r \in DOMAIN req : Authenticate(r)
    \/ \E r \in DOMAIN req : RateLimit(r)
    \/ \E r \in DOMAIN req : GetOrCreateBucket(r)
    \/ \E r \in DOMAIN req : TakeTokenStep(r)
    \/ SweepBegin
    \/ \E id \in SweepIds : SweepVisit(id)
    \/ SweepEnd
    \/ Idle

SweepSpec == SweepInit /\ [][SweepNext]_vars

----------------------------------------------------------------------------
(* SteadySpec: the bucket of one caller under steady traffic: from time 0 on,
   burst requests every period ticks (one of the two is 1), each one running
   getOrCreateBucket and TakeToken *)

\* The time SteadySpec runs for: four seconds.
Horizon == 4 * TicksPerSec

SteadyInit ==
    /\ \E q \in 1..MaxQPS :
        clients = [id \in ClientIds |-> [NewClient("v1", MaxQuota) EXCEPT !.qps = q]]
    /\ \E P \in 1..MaxPeriod, B \in 1..MaxBurst :
        /\ P = 1 \/ B = 1
        /\ traffic = [period |-> P, burst |-> B, left |-> B, adm |-> <<0>>]
        /\ sig = NoSig
        /\ pool = NoPool
    /\ adminOp = [id \in ClientIds |-> NoAdminOp]
    /\ hist = [id \in ClientIds |-> NewHist(MaxQuota, 0)]
    /\ req = <<>>
    /\ buckets = [id \in ClientIds |-> NoBucket]
    /\ stats = [id \in ClientIds |-> NoStats]
    /\ now = 0
    /\ tasks = <<>>
    /\ queue = <<>>
    /\ cfg = [enable_signature |-> FALSE, faults |-> FALSE, sequential |-> TRUE,
              keys |-> {"k1"}]
    /\ faults = 0
    /\ limiter = NoLimiter
    /\ exchange = NoExchange
    /\ main = NoMain

\* One request of the caller reaches the limiter: getOrCreateBucket, then
\* TakeToken; traffic.adm counts the admissions of each instant.
SteadyArrive ==
    /\ traffic.left > 0
    /\ \E id \in ClientIds :
        LET qps == clients[id].qps
            b == IF buckets[id].exists
                 THEN Reconfigure(buckets[id], qps)
                 ELSE CreateOrGet(buckets[id], qps, now)
            res == TakeToken(b, now)
        IN  /\ buckets' = [buckets EXCEPT ![id] = res.bucket]
            /\ traffic' = [traffic EXCEPT
                    !.left = @ - 1,
                    !.adm[now + 1] = IF res.ok THEN @ + 1 ELSE @]
    /\ UNCHANGED <<clients, req, stats, now, tasks, queue, cfg, faults, storeVars,
                   limiter, sig, pool,
                   exchange, main>>

\* The requests of this instant are through; the next instant begins.
SteadyTick ==
    /\ traffic.left = 0
    /\ now < Horizon
    /\ now' = now + 1
    /\ traffic' = [traffic EXCEPT
            !.left = IF (now + 1) % traffic.period = 0 THEN traffic.burst ELSE 0,
            !.adm = Append(@, 0)]
    /\ UNCHANGED <<clients, req, buckets, stats, tasks, queue, cfg, faults, storeVars,
                   limiter, sig, pool,
                   exchange, main>>

SteadyNext == SteadyArrive \/ SteadyTick

SteadySpec == SteadyInit /\ [][SteadyNext]_vars

----------------------------------------------------------------------------
(* The HMAC signature validator. A string is a sequence of characters; the
   validator's 64-bit integers (int64, time.Duration) are words of WordBits
   bits, and time.Second is TicksPerSec units of time.Duration. *)

MinInt64 == -(2 ^ (WordBits - 1))
MaxInt64 == 2 ^ (WordBits - 1) - 1

\* Two's-complement wrap-around of an int64 result.
Wrap(x) == ((x - MinInt64) % (2 ^ WordBits)) + MinInt64

Second == TicksPerSec
Minute == 60 * Second

DigitChars == <<"0", "1", "2", "3", "4", "5", "6", "7", "8", "9">>
DigitVal(c) == (CHOOSE i \in DOMAIN DigitChars : DigitChars[i] = c) - 1
IsDigit(c) == \E i \in DOMAIN DigitChars : DigitChars[i] = c

RECURSIVE ParseUint(_, _)
ParseUint(s, acc) ==
    IF s = <<>> THEN acc ELSE ParseUint(Tail(s), acc * 10 + DigitVal(Head(s)))

\* strconv.ParseInt(s, 10, 64): an optional sign, then one digit or more; a value
\* outside int64 is an error.
ParseInt(s) ==
    LET neg == s # <<>> /\ Head(s) = "-"
        signed == s # <<>> /\ Head(s) \in {"+", "-"}
        digits == IF signed THEN Tail(s) ELSE s
        syntax == digits # <<>> /\ \A i \in DOMAIN digits : IsDigit(digits[i])
        un == ParseUint(digits, 0)
    IN  IF ~syntax THEN [ok |-> FALSE, val |-> 0]
        ELSE IF (~neg /\ un > MaxInt64) \/ (neg /\ un > -MinInt64)
             THEN [ok |-> FALSE, val |-> 0]
        ELSE [ok |-> TRUE, val |-> IF neg THEN -un ELSE un]

RECURSIVE FormatUint(_)
FormatUint(n) ==
    IF n < 10 THEN <<DigitChars[n + 1]>>
    ELSE Append(FormatUint(n \div 10), DigitChars[(n % 10) + 1])

\* strconv.FormatInt(n, 10)
FormatInt(n) == IF n < 0 THEN <<"-">> \o FormatUint(-n) ELSE FormatUint(n)

\* NewHMACSignatureValidator
NewHMACSignatureValidator(timeWindow) ==
    IF timeWindow = 0 THEN 5 * Minute ELSE timeWindow

\* The validator as the server builds it from auth.signature_time_window (seconds).
NewValidator(signatureTimeWindow) ==
    NewHMACSignatureValidator(Wrap(signatureTimeWindow * Second))

\* time.Now().Unix()
Unix(t) == t \div TicksPerSec

\* validateTimestamp
ValidateTimestamp(timestampStr, unixNow, timeWindow) ==
    LET p == ParseInt(timestampStr)
        d == Wrap(unixNow - p.val)
        timeDiff == IF d < 0 THEN Wrap(-d) ELSE d
    IN  IF ~p.ok THEN "invalid timestamp format"
        ELSE IF Wrap(timeDiff * Second) > timeWindow THEN "timestamp expired"
        ELSE "nil"

\* sha256.Sum256 printed with %x, and HMAC-SHA256 under base64: one-to-one, and no
\* line feed in the digest.
Sha256Hex(body) == <<"sha256(">> \o body \o <<")">>
HmacBase64(secret, message) == <<"hmac(">> \o secret \o <<",">> \o message \o <<")">>

\* calculateBodyHash
CalculateBodyHash(body) == Sha256Hex(body)

\* GenerateSignature, ignoring the method: the mutant of GenerateSignature.
GenerateSignatureNoMethod(method, path, timestamp, bodyHash, secret) ==
    HmacBase64(secret, path \o <<"\n">> \o timestamp \o <<"\n">> \o bodyHash)

\* GenerateSignature
GenerateSignature(method, path, timestamp, bodyHash, secret) ==
    HmacBase64(secret,
        method \o <<"\n">> \o path \o <<"\n">> \o timestamp \o <<"\n">> \o bodyHash)

\* ValidateSignature; readOk is whether io.ReadAll could read the body.
ValidateSignature(rq, secret, unixNow, timeWindow, readOk) ==
    IF rq.signature = <<>> THEN "missing signature"
    ELSE IF rq.timestamp = <<>> THEN "missing timestamp"
    ELSE IF ValidateTimestamp(rq.timestamp, unixNow, timeWindow) # "nil"
         THEN ValidateTimestamp(rq.timestamp, unixNow, timeWindow)
    ELSE IF ~readOk THEN "failed to calculate body hash"
    ELSE IF rq.signature # GenerateSignature(rq.method, rq.path, rq.timestamp,
                                CalculateBodyHash(rq.body), secret)
         THEN "invalid signature"
    ELSE "nil"

----------------------------------------------------------------------------
(* SigSpec: one caller signs a request, with any timestamp an int64 holds; the
   request is then presented to the validator as signed, any number of times
   while the clock advances.
   TamperSpec: the timestamp is near the present or at an end of int64, and the
   request is presented as signed or with one part of it changed. *)

Methods == {<<"GET">>, <<"POST">>}
Paths == {<<"/v1/a">>, <<"/v1/b">>, <<"/v1/a", "\n", "1">>}
Bodies == {<<>>, <<"x">>}
Secret == <<"s1">>

\* What a third party can make of a signed request: the request itself, or the
\* request with its method, its path, its body or its timestamp header replaced.
Variants(s) ==
    LET v == ParseInt(s.timestamp).val
        stamps == {<<"0">> \o s.timestamp, FormatInt(Wrap(v + 1)), <<"x">>, <<>>}
                    \cup (IF v >= 0 THEN {<<"+">> \o s.timestamp} ELSE {})
    IN  {s} \cup {[s EXCEPT !.method = m] : m \in Methods}
            \cup {[s EXCEPT !.path = p] : p \in Paths}
            \cup {[s EXCEPT !.body = b] : b \in Bodies}
            \cup {[s EXCEPT !.timestamp = t] : t \in stamps}
            \cup {[s EXCEPT !.signature = <<>>]}

SigInitWith(windows) ==
    /\ clients = [id \in ClientIds |-> NewClient("v1", MaxQuota)]
    /\ hist = [id \in ClientIds |-> NewHist(MaxQuota, 0)]
    /\ adminOp = [id \in ClientIds |-> NoAdminOp]
    /\ req = <<>>
    /\ buckets = [id \in ClientIds |-> NoBucket]
    /\ stats = [id \in ClientIds |-> NoStats]
    /\ now = TicksPerSec
    /\ tasks = <<>>
    /\ queue = <<>>
    /\ cfg = [enable_signature |-> TRUE, faults |-> FALSE, sequential |-> FALSE,
              keys |-> {"k1"}]
    /\ faults = 0
    /\ traffic = <<>>
    /\ \E w \in windows : sig = [NoSig EXCEPT !.timeWindow = NewValidator(w)]
    /\ pool = NoPool
    /\ limiter = NoLimiter
    /\ exchange = NoExchange
    /\ main = NoMain

\* The caller signs a request whose timestamp is one of stamps.
Sign(stamps) ==
    /\ ~sig.signed.exists
    /\ \E v \in stamps :
        LET timestamp == FormatInt(v)
            method == <<"POST">>
            path == <<"/v1/a">>
            body == <<"x">>
        IN  sig' = [sig EXCEPT !.signed =
                [exists |-> TRUE, method |-> method, path |-> path,
                 timestamp |-> timestamp, body |-> body,
                 signature |-> GenerateSignature(method, path, timestamp,
                                    CalculateBodyHash(body), Secret)]]
    /\ UNCHANGED <<clients, req, buckets, stats, now, tasks, queue, cfg, faults,
                   storeVars, traffic, pool, limiter,
                   exchange, main>>

\* A request reaches AuthMiddleware.Authenticate with signatures enabled: the
\* signed one, or, if tampered, any variant of it.
Present(tampered) ==
    /\ sig.signed.exists
    /\ \E p \in (IF tampered THEN Variants(sig.signed) ELSE {sig.signed}) :
        LET verdict == ValidateSignature(p, Secret, Unix(now), sig.timeWindow, TRUE)
        IN  sig' = [sig EXCEPT
                !.presented = p, !.at = Unix(now), !.verdict = verdict,
                !.replayed = @ \/ (p = sig.signed /\ verdict = "nil"
                                      /\ sig.presented = p /\ sig.verdict = "nil"
                                      /\ sig.at < Unix(now))]
    /\ UNCHANGED <<clients, req, buckets, stats, now, tasks, queue, cfg, faults,
                   storeVars, traffic, pool, limiter,
                   exchange, main>>

\* A second passes.
SigTick ==
    /\ now < MaxTime * TicksPerSec
    /\ now' = now + TicksPerSec
    /\ UNCHANGED <<clients, req, buckets, stats, tasks, queue, cfg, faults,
                   storeVars, traffic, sig, pool, limiter,
                   exchange, main>>

SigInit == SigInitWith(0..MaxWindow)

SigNext ==
    \/ Sign(MinInt64..MaxInt64)
    \/ Present(FALSE)
    \/ SigTick

SigSpec == SigInit /\ [][SigNext]_vars

\* Timestamps up to one second outside the widest window around the clock's
\* range, and the two ends of int64.
NearStamps ==
    (Unix(now) - MaxWindow - 1)..(MaxTime + MaxWindow + 1) \cup {MinInt64, MaxInt64}

TamperInit == SigInitWith(1..MaxWindow)

TamperNext ==
    \/ Sign(NearStamps)
    \/ Present(TRUE)
    \/ SigTick

TamperSpec == TamperInit /\ [][TamperNext]_vars

----------------------------------------------------------------------------
(* The worker pool. pool.workers is each worker's position in worker /
   processTask / executeCallback with its local variables (task: the task it
   dequeued, as it changes it in memory; i: the callback loop's counter; drained:
   whether an earlier attempt has read the callback request's body). pool.ctx is
   the context Stop cancels, pool.stop how far a call of Stop is, pool.inflight
   the tasks that were being processed when Stop cancelled the context. pool.log
   keeps, per task id, what was done for the task: the workers that dequeued it,
   the calls to its upstream, the workers that wrote its document, the store
   writes that failed, and the callback attempts in order. *)

NoTask == NewTask(0, "", "", 0)

NewWorker == [pc |-> "dequeue", task |-> NoTask, i |-> 0, drained |-> FALSE]

NoLog ==
    [got |-> {}, upstream |-> 0, writers |-> {}, lostUpdates |-> 0,
     lostIncrements |-> 0, attempts |-> <<>>]

\* NewWorkerPool and Start: workerCount workers, each about to dequeue.
NewWorkerPool(workerCount, taskIDs) ==
    [workers |-> [w \in 1..workerCount |-> NewWorker],
     log |-> [t \in taskIDs |-> NoLog],
     ctx |-> "live", stop |-> "none", inflight |-> {}]

\* BRPOP that leaves the element in the list: the mutant of Pop.
PopKeep(q) == q

\* BRPOP that empties the list: a second mutant of Pop.
PopAll(q) == <<>>

\* BRPOP removes the element it returns.
Pop(q) == Tail(q)

\* What the upstream of a task answers: a status, or nothing (transport error).
TaskUpstreamOutcomes == {"200", "500"} \cup (IF cfg.faults THEN {"error"} ELSE {})

\* What httpClient.Do(req) of a callback gives: a status; a transport error before
\* the request body was read ("refused") or after ("reset"); and, once an earlier
\* attempt has read the body of the one request all attempts share, the error of
\* a body shorter than its Content-Length ("drained").
CallbackOutcomes(drained) ==
    IF drained THEN {"drained"}
    ELSE {"200", "500"} \cup (IF cfg.faults THEN {"refused", "reset"} ELSE {})

\* Any response counts as a success: the mutant of CallbackOK.
CallbackOKAny(outcome) == outcome \in {"200", "500"}

\* resp.StatusCode >= 200 && resp.StatusCode < 300, for the outcomes above.
CallbackOK(outcome) == outcome = "200"


Working(w) == w \in DOMAIN pool.workers

\* worker: queue.Dequeue returns a task, or fails and the worker returns. (An
\* empty queue returns nil and the worker polls again.)
Dequeue(w) ==
    /\ Working(w)
    /\ pool.workers[w].pc = "dequeue"
    /\ pool.ctx = "live"
    /\ \E qOk \in DbOutcomes :
        /\ Faulted(qOk)
        /\ qOk => queue # <<>>
        /\ IF qOk
           THEN LET task == Unmarshal(Head(queue)) IN
                /\ queue' = Pop(queue)
                /\ pool' = [pool EXCEPT
                        !.workers[w] = [@ EXCEPT !.pc = "mark", !.task = task],
                        !.log[task.task_id].got = @ \cup {w}]
           ELSE /\ pool' = [pool EXCEPT !.workers[w].pc = "returned"]
                /\ UNCHANGED queue
    /\ UNCHANGED <<clients, req, buckets, stats, now, tasks, cfg, storeVars,
                   traffic, sig, limiter,
                   exchange, main>>

\* processTask: task.MarkProcessing and the first taskRepo.Update, whose error
\* is logged.
ProcessTask(w) ==
    /\ Working(w)
    /\ pool.workers[w].pc = "mark"
    /\ \E dbOk \in DbOutcomes :
        LET task == MarkProcessing(pool.workers[w].task, now)
            id == task.task_id
        IN  /\ Faulted(dbOk)
            /\ tasks' = IF dbOk THEN TaskUpdate(tasks, task) ELSE tasks
            /\ pool' = [pool EXCEPT
                    !.workers[w] = [@ EXCEPT !.pc = "upstream", !.task = task],
                    !.log[id].writers = IF dbOk THEN @ \cup {w} ELSE @,
                    !.log[id].lostUpdates = IF dbOk THEN @ ELSE @ + 1]
    /\ UNCHANGED <<clients, req, buckets, stats, now, queue, cfg, storeVars,
                   traffic, sig, limiter,
                   exchange, main>>

\* processTask: callUpstream, then MarkSuccess or MarkFailed.
CallUpstream(w) ==
    /\ Working(w)
    /\ pool.workers[w].pc = "upstream"
    /\ \E up \in TaskUpstreamOutcomes :
        LET old == pool.workers[w].task
            task == IF up = "200" THEN MarkSuccess(old, 200, now)
                    ELSE IF up = "500" THEN MarkFailed(old, 500, now)
                    ELSE MarkFailed(old, 0, now)
        IN  pool' = [pool EXCEPT
                !.workers[w] = [@ EXCEPT !.pc = "save", !.task = task],
                !.log[old.task_id].upstream = @ + 1]
    /\ UNCHANGED <<clients, req, buckets, stats, now, tasks, queue, cfg, faults,
                   storeVars, traffic, sig, limiter,
                   exchange, main>>

\* processTask: the second taskRepo.Update, whose error is logged, and the test
\* of the callback URL; executeCallback up to its loop.
SaveResult(w) ==
    /\ Working(w)
    /\ pool.workers[w].pc = "save"
    /\ \E dbOk \in DbOutcomes :
        LET task == pool.workers[w].task
            id == task.task_id
        IN  /\ Faulted(dbOk)
            /\ tasks' = IF dbOk THEN TaskUpdate(tasks, task) ELSE tasks
            /\ pool' = [pool EXCEPT
                    !.workers[w] =
                        IF task.callback_url # ""
                        THEN [@ EXCEPT !.pc = "callback", !.i = 0, !.drained = FALSE]
                        ELSE NewWorker,
                    !.log[id].writers = IF dbOk THEN @ \cup {w} ELSE @,
                    !.log[id].lostUpdates = IF dbOk THEN @ ELSE @ + 1]
    /\ UNCHANGED <<clients, req, buckets, stats, now, queue, cfg, storeVars,
                   traffic, sig, limiter,
                   exchange, main>>

\* Where the loop of executeCallback goes after an attempt: on to attempt i + 1,
\* or out of the function.
AfterAttempt(worker, outcome) ==
    IF CallbackOK(outcome) \/ worker.i + 1 >= MaxRetries
    THEN NewWorker
    ELSE [worker EXCEPT !.i = @ + 1,
                        !.drained = @ \/ outcome \in {"200", "500", "reset"}]

\* executeCallback: one pass of the loop: httpClient.Do, then
\* IncrementCallbackAttempts, whose error is dropped, then the test of the answer.
CallbackAttempt(w) ==
    /\ Working(w)
    /\ pool.workers[w].pc = "callback"
    /\ pool.workers[w].i < MaxRetries
    /\ \E outcome \in CallbackOutcomes(pool.workers[w].drained), dbOk \in DbOutcomes :
        LET worker == pool.workers[w]
            id == worker.task.task_id
            attempt == [status |-> worker.task.status, url |-> worker.task.callback_url,
                        completed_at |-> worker.task.completed_at,
                        stored |-> tasks[id].status, outcome |-> outcome]
        IN  /\ Faulted(dbOk)
            /\ tasks' = IF dbOk THEN IncrementCallbackAttempts(tasks, id) ELSE tasks
            /\ pool' = [pool EXCEPT
                    !.workers[w] = AfterAttempt(worker, outcome),
                    !.log[id].attempts = Append(@, attempt),
                    !.log[id].writers = IF dbOk THEN @ \cup {w} ELSE @,
                    !.log[id].lostIncrements = IF dbOk THEN @ ELSE @ + 1]
    /\ UNCHANGED <<clients, req, buckets, stats, now, queue, cfg, storeVars,
                   traffic, sig, limiter,
                   exchange, main>>

----------------------------------------------------------------------------
(* WorkerSpec: MaxTasks tasks that HandleAsync has stored and enqueued, and
   MaxWorkers workers, in any interleaving; the store and the queue fail at most
   MaxFaults times, the upstream and the callback endpoint answer anything.
   FairWorkerSpec: requests of one caller that have reached the async gate and the
   workers, with nothing failing and every worker scheduled. *)

\* A request of caller id that the handlers before HandleAsync have let through.
AtAsyncGate(id) ==
    LET gate == CHOOSE i \in DOMAIN Chain : Chain[i] = "HandleAsync" IN
    [NewReq EXCEPT !.idx = gate, !.key = KeyOf(id), !.lookup = "nil", !.client = id,
                   !.snap = clients[id], !.apiKeySet = TRUE, !.checked = TRUE,
                   !.token = "taken",
                   !.ran = SubSeq(Chain, 1, gate - 1)]

\* What the two specifications start from alike.
WorkerInitRest(failing, taskIDs) ==
    /\ clients = [id \in ClientIds |-> NewClient("v1", MaxQuota)]
    /\ hist = [id \in ClientIds |-> NewHist(MaxQuota, 0)]
    /\ adminOp = [id \in ClientIds |-> NoAdminOp]
    /\ buckets = [id \in ClientIds |-> NoBucket]
    /\ stats = [id \in ClientIds |-> NoStats]
    /\ now = 0
    /\ cfg = [enable_signature |-> FALSE, faults |-> failing, sequential |-> FALSE,
              keys |-> {"k1"}]
    /\ faults = 0
    /\ traffic = <<>>
    /\ sig = NoSig
    /\ pool = NewWorkerPool(MaxWorkers, taskIDs)
    /\ limiter = NoLimiter
    /\ exchange = NoExchange
    /\ main = NoMain

WorkerInit ==
    /\ WorkerInitRest(TRUE, 1..MaxTasks)
    /\ req = <<>>
    /\ tasks = [t \in 1..MaxTasks |-> NewTask(t, Hex("c1"), CallbackURL, 0)]
    /\ queue = [t \in 1..MaxTasks |-> Marshal(NewTask(t, Hex("c1"), CallbackURL, 0))]

WorkerStep(w) ==
    \/ Dequeue(w)
    \/ ProcessTask(w)
    \/ CallUpstream(w)
    \/ SaveResult(w)
    \/ CallbackAttempt(w)

WorkerNext ==
    \/ \E w \in 1..MaxWorkers : Dequeue(w)
    \/ \E w \in 1..MaxWorkers : ProcessTask(w)
    \/ \E w \in 1..MaxWorkers : CallUpstream(w)
    \/ \E w \in 1..MaxWorkers : SaveResult(w)
    \/ \E w \in 1..MaxWorkers : CallbackAttempt(w)

WorkerSpec == WorkerInit /\ [][WorkerNext]_vars

FairWorkerInit ==
    /\ WorkerInitRest(FALSE, 1..(MaxTasks + 1))
    /\ req = [r \in 1..(MaxTasks + 1) |-> AtAsyncGate("c1")]
    /\ tasks = <<>>
    /\ queue = <<>>

FairWorkerNext ==
    \/ \E r \in DOMAIN req : HandleAsync(r)
    \/ \E r \in DOMAIN req : AsyncEnqueue(r)
    \/ \E w \in 1..MaxWorkers : Dequeue(w)
    \/ \E w \in 1..MaxWorkers : ProcessTask(w)
    \/ \E w \in 1..MaxWorkers : CallUpstream(w)
    \/ \E w \in 1..MaxWorkers : SaveResult(w)
    \/ \E w \in 1..MaxWorkers : CallbackAttempt(w)

FairWorkerSpec ==
    /\ FairWorkerInit
    /\ [][FairWorkerNext]_vars
    /\ \A w \in 1..MaxWorkers : WF_vars(WorkerStep(w))

----------------------------------------------------------------------------
(* Header names. A header name is the sequence of its characters. net/http
   keeps the headers of a request it has read in a map whose keys are in
   canonical form: the first letter and every letter after a hyphen in upper
   case, the others in lower case. *)

Lowers == <<"a", "b", "c", "d", "e", "f", "g", "h", "i", "j", "k", "l", "m", "n", "o", "p", "q", "r", "s", "t", "u", "v", "w", "x", "y", "z">>

Uppers == <<"A", "B", "C", "D", "E", "F", "G", "H", "I", "J", "K", "L", "M", "N", "O", "P", "Q", "R", "S", "T", "U", "V", "W", "X", "Y", "Z">>

\* The position of letter c in alphabet a, 0 when it is not there.
LetterIn(c, a) == IF \E i \in DOMAIN a : a[i] = c
                  THEN CHOOSE i \in DOMAIN a : a[i] = c ELSE 0

ToUpper(c) == IF LetterIn(c, Lowers) # 0 THEN Uppers[LetterIn(c, Lowers)] ELSE c

ToLower(c) == IF LetterIn(c, Uppers) # 0 THEN Lowers[LetterIn(c, Uppers)] ELSE c

UpperCase(k) == [i \in DOMAIN k |-> ToUpper(k[i])]

LowerCase(k) == [i \in DOMAIN k |-> ToLower(k[i])]

\* textproto.CanonicalMIMEHeaderKey, on names made of letters and hyphens.
CanonicalMIMEHeaderKey(k) ==
    [i \in DOMAIN k |-> IF i = 1 \/ k[i - 1] = "-" THEN ToUpper(k[i]) ELSE ToLower(k[i])]

\* isSensitiveHeader: the list it compares with, by ==.
sensitiveHeaders ==
    {<<"A", "u", "t", "h", "o", "r", "i", "z", "a", "t", "i", "o", "n">>,
     <<"X", "-", "A", "P", "I", "-", "K", "e", "y">>,
     <<"X", "-", "S", "i", "g", "n", "a", "t", "u", "r", "e">>,
     <<"X", "-", "S", "e", "c", "r", "e", "t">>,
     <<"C", "o", "o", "k", "i", "e">>}

isSensitiveHeader(key) == key \in sensitiveHeaders

\* A header a client may send that is no secret.
Accept == <<"A", "c", "c", "e", "p", "t">>

\* The spellings of a name a client may put on the wire.
Spellings(k) == {k, LowerCase(k), UpperCase(k), CanonicalMIMEHeaderKey(k)}

WireNames == UNION {Spellings(k) : k \in sensitiveHeaders \cup {Accept}}

\* Every variable but exchange and main at rest: no caller, no request, no task;
\* failing: whether the store and the queue may fail.
QuietInit(failing) ==
    /\ clients = [id \in ClientIds |-> NoClient]
    /\ adminOp = [id \in ClientIds |-> NoAdminOp]
    /\ hist = [id \in ClientIds |-> NewHist(0, 0)]
    /\ req = <<>>
    /\ buckets = [id \in ClientIds |-> NoBucket]
    /\ stats = [id \in ClientIds |-> NoStats]
    /\ now = 0
    /\ tasks = <<>>
    /\ queue = <<>>
    /\ cfg = [enable_signature |-> FALSE, faults |-> failing, sequential |-> FALSE,
              keys |-> {}]
    /\ faults = 0
    /\ traffic = <<>>
    /\ sig = NoSig
    /\ pool = NoPool
    /\ limiter = NoLimiter

quietVars ==
    <<clients, adminOp, hist, req, buckets, stats, now, tasks, queue, cfg, faults,
      traffic, sig, pool, limiter>>

----------------------------------------------------------------------------
(* HeaderSpec: the headers of one async request, from the wire to the upstream:
   exchange.wire is the header lines the client sent, in order; exchange.header
   is c.Request.Header; exchange.task is the headers of the stored task;
   exchange.sent is the header of the request the worker sends upstream. *)

MaxHeaders == 2

HeaderInit ==
    /\ QuietInit(FALSE)
    /\ exchange = [pc |-> "wire", wire |-> <<>>, header |-> <<>>, task |-> <<>>,
                   sent |-> <<>>]
    /\ main = NoMain

\* The client writes one more header line; its value is the line's number.
SendHeader ==
    /\ exchange.pc = "wire"
    /\ Len(exchange.wire) < MaxHeaders
    /\ \E name \in WireNames :
        exchange' = [exchange EXCEPT
            !.wire = Append(@, [name |-> name, value |-> Len(@) + 1])]
    /\ UNCHANGED <<quietVars, main>>

\* net/http reads the request: each name in canonical form, the values of a
\* name in the order of their lines.
ReadRequest ==
    /\ exchange.pc = "wire"
    /\ LET wire == exchange.wire
           keys == {CanonicalMIMEHeaderKey(wire[i].name) : i \in DOMAIN wire}
           lines(k) == SelectSeq(wire, LAMBDA l : CanonicalMIMEHeaderKey(l.name) = k)
       IN  exchange' = [exchange EXCEPT
                !.pc = "read",
                !.header = [k \in keys |-> [i \in DOMAIN lines(k) |-> lines(k)[i].value]]]
    /\ UNCHANGED <<quietVars, main>>

\* HandleAsync: the headers it collects for the task, the first value of every
\* name that isSensitiveHeader lets through. (The task reaches the worker as it
\* was stored.)
CollectHeaders ==
    /\ exchange.pc = "read"
    /\ LET header == exchange.header
           kept == {key \in DOMAIN header :
                        Len(header[key]) > 0 /\ ~isSensitiveHeader(key)}
       IN  exchange' = [exchange EXCEPT
                !.pc = "stored",
                !.task = [key \in kept |-> header[key][1]]]
    /\ UNCHANGED <<quietVars, main>>

\* callUpstream: req.Header.Set(key, value) for every header of the task.
SetUpstreamHeaders ==
    /\ exchange.pc = "stored"
    /\ LET headers == exchange.task
           keys == {CanonicalMIMEHeaderKey(key) : key \in DOMAIN headers}
       IN  exchange' = [exchange EXCEPT
                !.pc = "sent",
                !.sent = [k \in keys |->
                    <<headers[CHOOSE key \in DOMAIN headers :
                                CanonicalMIMEHeaderKey(key) = k]>>]]
    /\ UNCHANGED <<quietVars, main>>

HeaderNext ==
    \/ SendHeader
    \/ ReadRequest
    \/ CollectHeaders
    \/ SetUpstreamHeaders

HeaderSpec == HeaderInit /\ [][HeaderNext]_vars

----------------------------------------------------------------------------
(* QueueSpec: the task queue used by any producers and consumers. Each of
   MaxTasks + 1 tasks is enqueued once, by a producer of its own: the call, the
   LPUSH in Redis, the return. Either of two consumers calls Dequeue, any number
   of times, with a context that may be cancelled; Redis fails at most MaxFaults
   times. exchange.enq is how far each Enqueue is; exchange.before the pairs
   <<a, b>> with Enqueue(a) returned before Enqueue(b) was called;
   exchange.pushed the tasks in the order of their LPUSH; exchange.delivered the
   tasks Dequeue returned, in order, each with its consumer; exchange.answers
   the kinds of answer Dequeue gave, each with what the call found. *)

QueueTasks == 1..(MaxTasks + 1)

Consumers == {"w1", "w2"}

\* RedisTaskQueue.Dequeue, on what BRPOP answers (nil: the task returned is nil,
\* and the field task means nothing): reply is "ok" when Redis
\* answered (an element, or redis.Nil after the blocking window when the list is
\* empty), "error" when the connection failed. A cancelled context ends the call
\* with the context's error.
QueueDequeue(q, ctx, reply) ==
    IF ctx = "cancelled"
    THEN [nil |-> TRUE, task |-> NoTask, err |-> "context.Canceled", queue |-> q]
    ELSE IF reply = "error"
    THEN [nil |-> TRUE, task |-> NoTask, err |-> "failed to dequeue task", queue |-> q]
    ELSE IF q = <<>>
    THEN [nil |-> TRUE, task |-> NoTask, err |-> "nil", queue |-> q]
    ELSE [nil |-> FALSE, task |-> Unmarshal(Head(q)), err |-> "nil", queue |-> Pop(q)]

QueueInit ==
    /\ QuietInit(TRUE)
    /\ exchange = [enq |-> [t \in QueueTasks |-> "idle"], before |-> {},
                   pushed |-> <<>>, delivered |-> <<>>, answers |-> {},
                   ctx |-> "live"]
    /\ main = NoMain

\* A producer calls Enqueue(task).
EnqueueCall(t) ==
    /\ exchange.enq[t] = "idle"
    /\ exchange' = [exchange EXCEPT
            !.enq[t] = "called",
            !.before = @ \cup {<<a, t>> : a \in {a \in QueueTasks :
                                                    exchange.enq[a] = "returned"}}]
    /\ UNCHANGED <<quietVars, main>>

\* RedisTaskQueue.Enqueue: json.Marshal and LPUSH, or LPUSH fails.
EnqueuePush(t) ==
    /\ exchange.enq[t] = "called"
    /\ \E ok \in DbOutcomes :
        /\ Faulted(ok)
        /\ queue' = IF ok THEN LPush(queue, Marshal(NewTask(t, Hex("c1"), CallbackURL, now)))
                    ELSE queue
        /\ exchange' = [exchange EXCEPT
                !.enq[t] = IF ok THEN "pushed" ELSE "failed",
                !.pushed = IF ok THEN Append(@, t) ELSE @]
    /\ UNCHANGED <<clients, adminOp, hist, req, buckets, stats, now, tasks, cfg,
                   traffic, sig, pool, limiter, main>>

\* Enqueue returns nil to its caller.
EnqueueReturn(t) ==
    /\ exchange.enq[t] = "pushed"
    /\ exchange' = [exchange EXCEPT !.enq[t] = "returned"]
    /\ UNCHANGED <<quietVars, main>>

\* A consumer calls Dequeue(ctx) and gets its answer.
DequeueCall(w) ==
    /\ \E ok \in DbOutcomes :
        LET reply == IF ok THEN "ok" ELSE "error"
            res == QueueDequeue(queue, exchange.ctx, reply)
        IN
        /\ Faulted(ok)
        /\ queue' = res.queue
        /\ exchange' = [exchange EXCEPT
                !.delivered = IF res.nil THEN @
                              ELSE Append(@, [task |-> res.task, by |-> w]),
                !.answers = @ \cup {[nil |-> res.nil, err |-> res.err,
                                     ctx |-> exchange.ctx, reply |-> reply,
                                     empty |-> queue = <<>>]}]
    /\ UNCHANGED <<clients, adminOp, hist, req, buckets, stats, now, tasks, cfg,
                   traffic, sig, pool, limiter, main>>

\* The consumers' context is cancelled.
CancelContext ==
    /\ exchange.ctx = "live"
    /\ exchange' = [exchange EXCEPT !.ctx = "cancelled"]
    /\ UNCHANGED <<quietVars, main>>

QueueNext ==
    \/ \E t \in QueueTasks : EnqueueCall(t)
    \/ \E t \in QueueTasks : EnqueuePush(t)
    \/ \E t \in QueueTasks : EnqueueReturn(t)
    \/ \E w \in Consumers : DequeueCall(w)
    \/ CancelContext

QueueSpec == QueueInit /\ [][QueueNext]_vars

----------------------------------------------------------------------------
(* TaskSpec: the task endpoints. Two callers submit up to MaxTasks + 1 tasks
   between them, workers finish some, and either caller, authenticated, asks
   for any task id or for its list. exchange.owner is the caller that submitted
   each task; exchange.resp the latest answer of a task endpoint, with the
   caller that asked. *)

TaskIds == 1..(MaxTasks + 1)

\* A task id no task has.
NoSuchTask == 0

NoResp ==
    [endpoint |-> "none", caller |-> "none", task_id |-> NoSuchTask, status |-> 0,
     code |-> 0, data |-> <<>>, list |-> <<>>]

\* taskMongoRepository.GetByTaskID: FindOne by task_id.
GetByTaskID(ts, taskID, dbOk) ==
    IF ~dbOk THEN [err |-> "failed to get task", task |-> NoTask]
    ELSE IF taskID \notin DOMAIN ts THEN [err |-> "task not found", task |-> NoTask]
    ELSE [err |-> "nil", task |-> ts[taskID]]

\* The sequences that hold each task of set S once, latest created_at first.
NewestFirst(ts, S) ==
    {s \in [1..Cardinality(S) -> S] :
        /\ \A i, j \in DOMAIN s : i # j => s[i] # s[j]
        /\ \A i, j \in DOMAIN s : i < j => ts[s[i]].created_at >= ts[s[j]].created_at}

\* taskMongoRepository.GetTasksByClient: Find by client_id, sorted by created_at
\* descending, after skip and limit (limit 0: no limit); order is one of the
\* sorted orders of the matching tasks.
GetTasksByClient(ts, clientID, limit, offset, order) ==
    LET skipped == SubSeq(order, offset + 1, Len(order))
        page == IF limit = 0 \/ limit >= Len(skipped) THEN skipped
                ELSE SubSeq(skipped, 1, limit)
    IN  [i \in DOMAIN page |-> ts[page[i]]]

\* What GetTaskStatus shows of a task.
StatusView(task) ==
    [task_id |-> task.task_id, status |-> task.status,
     created_at |-> task.created_at, completed_at |-> task.completed_at]

TaskInit ==
    /\ clients = [id \in SweepIds |-> NewClient("v1", MaxQuota)]
    /\ adminOp = [id \in SweepIds |-> NoAdminOp]
    /\ hist = [id \in SweepIds |-> NewHist(MaxQuota, 0)]
    /\ req = <<>>
    /\ buckets = [id \in SweepIds |-> NoBucket]
    /\ stats = [id \in SweepIds |-> NoStats]
    /\ now = 0
    /\ tasks = <<>>
    /\ queue = <<>>
    /\ cfg = [enable_signature |-> FALSE, faults |-> TRUE, sequential |-> FALSE,
              keys |-> {KeyOf(id) : id \in SweepIds}]
    /\ faults = 0
    /\ traffic = <<>>
    /\ sig = NoSig
    /\ pool = NoPool
    /\ limiter = NoLimiter
    /\ exchange = [owner |-> <<>>, resp |-> NoResp]
    /\ main = NoMain

\* HandleAsync of a request of caller id: model.NewTask and taskRepo.Create.
SubmitTask(id) ==
    /\ \E t \in TaskIds :
        /\ t \notin DOMAIN tasks
        /\ \A u \in TaskIds : u < t => u \in DOMAIN tasks
        /\ tasks' = TaskCreate(tasks, NewTask(t, Hex(id), CallbackURL, now))
        /\ exchange' = [exchange EXCEPT !.owner = @ @@ (t :> id)]
    /\ UNCHANGED <<clients, adminOp, hist, req, buckets, stats, now, queue, cfg,
                   faults, traffic, sig, pool, limiter, main>>

\* processTask of a worker: the task, marked, replaces the stored one.
FinishTask(t) ==
    /\ t \in DOMAIN tasks
    /\ tasks[t].status = TaskStatusPending
    /\ \E up \in {"200", "500"} :
        LET task == MarkProcessing(tasks[t], now) IN
        tasks' = TaskUpdate(tasks, IF up = "200" THEN MarkSuccess(task, 200, now)
                                   ELSE MarkFailed(task, 500, now))
    /\ UNCHANGED <<clients, adminOp, hist, req, buckets, stats, now, queue, cfg,
                   faults, traffic, sig, pool, limiter, exchange, main>>

\* TaskHandler.GetTask, for a request Authenticate has let through as caller id.
GetTask(id) ==
    /\ \E taskID \in TaskIds \cup {NoSuchTask}, dbOk \in DbOutcomes :
        LET got == GetByTaskID(tasks, taskID, dbOk)
            resp == [NoResp EXCEPT !.endpoint = "GetTask", !.caller = id,
                                   !.task_id = taskID]
        IN  /\ Faulted(dbOk)
            /\ exchange' = [exchange EXCEPT !.resp =
                    IF got.err # "nil"
                    THEN [resp EXCEPT !.status = 404, !.code = 40400]
                    ELSE IF got.task.client_id # Hex(id)
                    THEN [resp EXCEPT !.status = 403, !.code = 40300]
                    ELSE [resp EXCEPT !.status = 200, !.code = 20000,
                                      !.data = got.task]]
    /\ UNCHANGED <<clients, adminOp, hist, req, buckets, stats, now, tasks, queue,
                   cfg, traffic, sig, pool, limiter, main>>

\* TaskHandler.GetTaskStatus, for a request of caller id.
GetTaskStatus(id) ==
    /\ \E taskID \in TaskIds \cup {NoSuchTask}, dbOk \in DbOutcomes :
        LET got == GetByTaskID(tasks, taskID, dbOk)
            resp == [NoResp EXCEPT !.endpoint = "GetTaskStatus", !.caller = id,
                                   !.task_id = taskID]
        IN  /\ Faulted(dbOk)
            /\ exchange' = [exchange EXCEPT !.resp =
                    IF got.err # "nil"
                    THEN [resp EXCEPT !.status = 404, !.code = 40400]
                    ELSE IF got.task.client_id # Hex(id)
                    THEN [resp EXCEPT !.status = 403, !.code = 40300]
                    ELSE [resp EXCEPT !.status = 200, !.code = 20000,
                                      !.data = StatusView(got.task)]]
    /\ UNCHANGED <<clients, adminOp, hist, req, buckets, stats, now, tasks, queue,
                   cfg, traffic, sig, pool, limiter, main>>

\* TaskHandler.ListTasks, for a request of caller id, with any page.
ListTasks(id) ==
    /\ \E limit \in 0..2, offset \in 0..1, dbOk \in DbOutcomes :
       \E order \in NewestFirst(tasks, {t \in DOMAIN tasks : tasks[t].client_id = Hex(id)}) :
        LET resp == [NoResp EXCEPT !.endpoint = "ListTasks", !.caller = id] IN
        /\ Faulted(dbOk)
        /\ exchange' = [exchange EXCEPT !.resp =
                IF ~dbOk THEN [resp EXCEPT !.status = 500, !.code = 50000]
                ELSE [resp EXCEPT !.status = 200, !.code = 20000,
                        !.list = GetTasksByClient(tasks, Hex(id), limit, offset, order)]]
    /\ UNCHANGED <<clients, adminOp, hist, req, buckets, stats, now, tasks, queue,
                   cfg, traffic, sig, pool, limiter, main>>

TaskNext ==
    \/ \E id \in SweepIds : SubmitTask(id)
    \/ \E t \in TaskIds : FinishTask(t)
    \/ \E id \in SweepIds : GetTask(id)
    \/ \E id \in SweepIds : GetTaskStatus(id)
    \/ \E id \in SweepIds : ListTasks(id)

TaskSpec == TaskInit /\ [][TaskNext]_vars

----------------------------------------------------------------------------
(* StopSpec: MaxTasks + 1 tasks stored and enqueued, MaxWorkers workers, and one
   call of WorkerPool.Stop at any moment; nothing fails. *)

\* wg.Wait() that returns at once: the mutant of WaitDone.
WaitDoneAtOnce(workers) == TRUE

\* wg.Wait(): every worker has run its deferred wg.Done().
WaitDone(workers) == \A w \in DOMAIN workers : workers[w].pc = "returned"

\* The tasks the workers hold: dequeued, processTask not yet returned.
InProcess == {pool.workers[w].task.task_id :
                w \in {w \in DOMAIN pool.workers :
                        pool.workers[w].pc \in {"mark", "upstream", "save", "callback"}}}

StopInit ==
    /\ WorkerInitRest(FALSE, 1..(MaxTasks + 1))
    /\ req = <<>>
    /\ tasks = [t \in 1..(MaxTasks + 1) |-> NewTask(t, Hex("c1"), CallbackURL, 0)]
    /\ queue = [t \in 1..(MaxTasks + 1) |-> Marshal(NewTask(t, Hex("c1"), CallbackURL, 0))]

\* Stop: wp.cancel().
StopCancel ==
    /\ pool.stop = "none"
    /\ pool' = [pool EXCEPT !.ctx = "cancelled", !.stop = "waiting",
                            !.inflight = InProcess]
    /\ UNCHANGED <<clients, adminOp, hist, req, buckets, stats, now, tasks, queue,
                   cfg, faults, traffic, sig, limiter, exchange, main>>

\* worker: at the top of its loop the context is done (or Dequeue returns the
\* context's error), and the worker returns; wg.Done() runs.
WorkerExit(w) ==
    /\ Working(w)
    /\ pool.workers[w].pc = "dequeue"
    /\ pool.ctx = "cancelled"
    /\ pool' = [pool EXCEPT !.workers[w].pc = "returned"]
    /\ UNCHANGED <<clients, adminOp, hist, req, buckets, stats, now, tasks, queue,
                   cfg, faults, traffic, sig, limiter, exchange, main>>

\* Stop: wp.wg.Wait() returns, and Stop with it.
StopReturn ==
    /\ pool.stop = "waiting"
    /\ WaitDone(pool.workers)
    /\ pool' = [pool EXCEPT !.stop = "returned"]
    /\ UNCHANGED <<clients, adminOp, hist, req, buckets, stats, now, tasks, queue,
                   cfg, faults, traffic, sig, limiter, exchange, main>>

StopNext ==
    \/ \E w \in 1..MaxWorkers : Dequeue(w)
    \/ \E w \in 1..MaxWorkers : ProcessTask(w)
    \/ \E w \in 1..MaxWorkers : CallUpstream(w)
    \/ \E w \in 1..MaxWorkers : SaveResult(w)
    \/ \E w \in 1..MaxWorkers : CallbackAttempt(w)
    \/ \E w \in 1..MaxWorkers : WorkerExit(w)
    \/ StopCancel
    \/ StopReturn

StopSpec == StopInit /\ [][StopNext]_vars

----------------------------------------------------------------------------
(* ShutdownSpec: the process from the signal on. main.pc is how far main has got
   after <-quit; main.queueOpen and main.storesOpen whether taskQueue.Close and
   dbManager.Close have run. The server r.Run started keeps accepting until the
   process exits: up to MaxReqs requests of one caller reach the async gate at
   any moment before that, and go on from there; MaxWorkers workers run. *)

ShutdownInit ==
    /\ WorkerInitRest(FALSE, 1..MaxReqs)
    /\ req = <<>>
    /\ tasks = <<>>
    /\ queue = <<>>

\* The server accepts a request, and the handlers before the async gate let it
\* through.
Admit ==
    /\ main.pc # "exited"
    /\ Len(req) < MaxReqs
    /\ req' = Append(req, AtAsyncGate("c1"))
    /\ UNCHANGED <<clients, adminOp, hist, buckets, stats, now, tasks, queue, cfg,
                   faults, traffic, sig, pool, limiter, exchange, main>>

\* main: a signal arrives on quit.
Signal ==
    /\ main.pc = "serving"
    /\ main' = [main EXCEPT !.pc = "stopping"]
    /\ UNCHANGED <<clients, adminOp, hist, req, buckets, stats, now, tasks, queue,
                   cfg, faults, traffic, sig, pool, limiter, exchange>>

\* main: workerPool.Stop() is called.
MainStopPool ==
    /\ main.pc = "stopping"
    /\ StopCancel

\* main: workerPool.Stop() has returned; taskQueue.Close().
CloseQueue ==
    /\ main.pc = "stopping"
    /\ pool.stop = "returned"
    /\ main' = [main EXCEPT !.pc = "queue closed", !.queueOpen = FALSE]
    /\ UNCHANGED <<clients, adminOp, hist, req, buckets, stats, now, tasks, queue,
                   cfg, faults, traffic, sig, pool, limiter, exchange>>

\* main: dbManager.Close(ctx).
CloseStores ==
    /\ main.pc = "queue closed"
    /\ main' = [main EXCEPT !.pc = "stores closed", !.storesOpen = FALSE]
    /\ UNCHANGED <<clients, adminOp, hist, req, buckets, stats, now, tasks, queue,
                   cfg, faults, traffic, sig, pool, limiter, exchange>>

\* main returns, and the process with it.
Exit ==
    /\ main.pc = "stores closed"
    /\ main' = [main EXCEPT !.pc = "exited"]
    /\ UNCHANGED <<clients, adminOp, hist, req, buckets, stats, now, tasks, queue,
                   cfg, faults, traffic, sig, pool, limiter, exchange>>

\* The process runs: its handlers and workers take steps.
Running == main.pc # "exited"

ShutdownNext ==
    \/ Admit
    \/ \E r \in DOMAIN req : Running /\ HandleAsync(r)
    \/ \E r \in DOMAIN req : Running /\ AsyncEnqueue(r)
    \/ \E r \in DOMAIN req : Running /\ Monitor(r)
    \/ \E r \in DOMAIN req : Running /\ ProxyRequest(r)
    \/ \E r \in DOMAIN req : Running /\ LogAPICallAfter(r)
    \/ \E r \in DOMAIN req : Running /\ DeductCallsAfter(r)
    \/ \E w \in 1..MaxWorkers : Running /\ Dequeue(w)
    \/ \E w \in 1..MaxWorkers : Running /\ ProcessTask(w)
    \/ \E w \in 1..MaxWorkers : Running /\ CallUpstream(w)
    \/ \E w \in 1..MaxWorkers : Running /\ SaveResult(w)
    \/ \E w \in 1..MaxWorkers : Running /\ CallbackAttempt(w)
    \/ \E w \in 1..MaxWorkers : Running /\ WorkerExit(w)
    \/ Signal
    \/ MainStopPool
    \/ StopReturn
    \/ CloseQueue
    \/ CloseStores
    \/ Exit

ShutdownSpec == ShutdownInit /\ [][ShutdownNext]_vars

----------------------------------------------------------------------------
(* ErrorSpec: the proxy handler's answer to an upstream transport error. The
   text of the error is a sequence of pieces (words and parts of words), up to
   MaxWords of them; strings.Contains looks for a phrase as consecutive pieces.
   exchange.text is err.Error(); exchange.rq the request's context at the proxy
   handler; exchange.writes the responses written; exchange.message the
   upstream_message of the answer. *)

MaxWords == 3

Pieces ==
    {"timeout", "Timeout", "deadline", "exceeded", "connection", "refused", "no",
     "such", "host", "EOF"}

\* strings.HasPrefix: the mutant of Contains.
HasPrefix(text, phrase) ==
    Len(phrase) <= Len(text) /\ SubSeq(text, 1, Len(phrase)) = phrase

\* strings.Contains(text, phrase)
Contains(text, phrase) ==
    \E i \in 1..(Len(text) - Len(phrase) + 1) :
        SubSeq(text, i, i + Len(phrase) - 1) = phrase

\* handleUpstreamError: the status, the code and the upstream_message it answers
\* with ("text": the message made of the error's own text).
handleUpstreamError(text) ==
    IF Contains(text, <<"timeout">>) \/ Contains(text, <<"deadline", "exceeded">>)
    THEN [status |-> 504, code |-> 50401, message |-> "none"]
    ELSE IF Contains(text, <<"connection", "refused">>)
            \/ Contains(text, <<"no", "such", "host">>)
    THEN [status |-> 502, code |-> 50402, message |-> "unavailable"]
    ELSE [status |-> 502, code |-> 50402, message |-> "text"]

ErrorInit ==
    /\ QuietInit(FALSE)
    /\ exchange = [text |-> <<>>, rq |-> [NewReq EXCEPT !.idx = Len(Chain)],
                   writes |-> 0, message |-> "none"]
    /\ main = NoMain

\* p.client.Do fails: the error's text grows by a piece.
ErrorText ==
    /\ exchange.writes = 0
    /\ Len(exchange.text) < MaxWords
    /\ \E piece \in Pieces :
        exchange' = [exchange EXCEPT !.text = Append(@, piece)]
    /\ UNCHANGED <<quietVars, main>>

\* ProxyRequest: p.handleUpstreamError(c, err) and return.
HandleUpstreamError ==
    /\ exchange.writes = 0
    /\ exchange.text # <<>>
    /\ LET a == handleUpstreamError(exchange.text) IN
        exchange' = [exchange EXCEPT
            !.rq = Continue(RespondWithError(@, a.status, a.code)),
            !.writes = @ + 1,
            !.message = a.message]
    /\ UNCHANGED <<quietVars, main>>

ErrorNext ==
    \/ ErrorText
    \/ HandleUpstreamError

ErrorSpec == ErrorInit /\ [][ErrorNext]_vars

----------------------------------------------------------------------------
(* StreamSpec: the logging response writer. The body is written a line at a
   time; a line is a record of its leading white space (pad), the text up to
   and including the first ": " (lead) and the rest (json: whether it parses,
   and the "type" and "n" fields of the object it parses to). exchange holds the
   writer's fields, the bytes the client has received (client) and the
   response_body handed to the call log (body: <<>> the empty string, <<j>> the
   text of one frame's JSON, or the lines of a plain response). *)

MaxFrames == 3

Json(valid, type, n) == [valid |-> valid, type |-> type, n |-> n]

Line(pad, lead, json) == [pad |-> pad, lead |-> lead, json |-> json]

Lines ==
    {Line(FALSE, "data: ", Json(TRUE, "complete", 1)),
     Line(FALSE, "data: ", Json(TRUE, "error", 2)),
     Line(FALSE, "data: ", Json(TRUE, "progress", 3)),
     Line(FALSE, "data: ", Json(FALSE, "complete", 4)),
     Line(FALSE, "event: ", Json(TRUE, "complete", 5)),
     Line(TRUE, "data: ", Json(TRUE, "complete", 6))}

\* strings.TrimSpace(line)
TrimSpace(line) == [line EXCEPT !.pad = FALSE]

\* strings.HasPrefix(line, "data: ")
HasDataPrefix(line) == ~line.pad /\ line.lead = "data: "

\* parseCompleteStreamData: the loop over strings.Split(content, "\n"), which
\* returns at the first line that matches.
RECURSIVE parseCompleteStreamData(_)
parseCompleteStreamData(lines) ==
    IF lines = <<>> THEN <<>>
    ELSE LET line == TrimSpace(Head(lines)) IN
         IF HasDataPrefix(line) /\ line.json.valid
            /\ line.json.type \in {"complete", "error"}
         THEN <<line.json>>
         ELSE parseCompleteStreamData(Tail(lines))

\* loggingResponseWriter.GetResponseBody
GetResponseBody(lrw) ==
    IF lrw.isStreamRequest THEN parseCompleteStreamData(lrw.streamBuffer)
    ELSE lrw.notStreamResponse

\* newLoggingResponseWriter
newLoggingResponseWriter(isStream) ==
    [isStreamRequest |-> isStream, streamBuffer |-> <<>>, notStreamResponse |-> <<>>,
     client |-> <<>>, upstream |-> <<>>, body |-> <<>>, read |-> FALSE]

\* LogAPICall up to c.Next(): isStream is whether the path contains "/stream".
StreamInit ==
    /\ QuietInit(FALSE)
    /\ \E isStream \in BOOLEAN : exchange = newLoggingResponseWriter(isStream)
    /\ main = NoMain

\* forwardStreamingResponse reads a line from upstream and writes it:
\* loggingResponseWriter.Write.
WriteLine ==
    /\ ~exchange.read
    /\ Len(exchange.upstream) < MaxFrames
    /\ \E line \in Lines :
        exchange' = [exchange EXCEPT
            !.upstream = Append(@, line),
            !.streamBuffer = IF exchange.isStreamRequest THEN Append(@, line) ELSE @,
            !.notStreamResponse = IF exchange.isStreamRequest THEN @ ELSE Append(@, line),
            !.client = Append(@, line)]
    /\ UNCHANGED <<quietVars, main>>

\* LogAPICall after c.Next(): responseBody := lrw.GetResponseBody()
ReadResponseBody ==
    /\ ~exchange.read
    /\ exchange' = [exchange EXCEPT !.body = GetResponseBody(exchange), !.read = TRUE]
    /\ UNCHANGED <<quietVars, main>>

StreamNext ==
    \/ WriteLine
    \/ ReadResponseBody

StreamSpec == StreamInit /\ [][StreamNext]_vars

----------------------------------------------------------------------------
(* QuerySpec: the chain in front of the task query endpoints. MaxReqs requests
   of GET /api/tasks/:task_id, GET /api/tasks/:task_id/status and GET /api/tasks,
   none of them with an X-Async header; the task store holds a task of the
   caller and a task of another caller. *)

\* The task of the caller and the task of another caller.
OwnTask == MaxReqs + 1

OthersTask == MaxReqs + 2

\* The route's handler is the last of the chain.
AtRoute(r) == req[r].dir = "down" /\ req[r].idx = Len(Chain) /\ req[r].sub = 0

\* The handler that ran is noted in the request's trace.
Routed(rq, handler) == [rq EXCEPT !.ran = Append(@, handler)]

QueryInit ==
    /\ InitCaller
    /\ cfg = [enable_signature |-> FALSE, faults |-> TRUE, sequential |-> FALSE,
              keys |-> Keys]
    /\ adminOp = [id \in ClientIds |-> NoAdminOp]
    /\ req = [r \in 1..MaxReqs |-> NewReq]
    /\ buckets = [id \in ClientIds |-> NoBucket]
    /\ stats = [id \in ClientIds |-> NoStats]
    /\ now = 0
    /\ tasks = (OwnTask :> NewTask(OwnTask, Hex("c1"), CallbackURL, 0))
               @@ (OthersTask :> NewTask(OthersTask, Hex("c2"), CallbackURL, 0))
    /\ queue = <<>>
    /\ faults = 0
    /\ traffic = <<>>
    /\ sig = NoSig
    /\ pool = NoPool
    /\ limiter = NoLimiter
    /\ exchange = NoExchange
    /\ main = NoMain

\* TaskHandler.GetTask as the route's handler.
ServeGetTask(r) ==
    /\ AtRoute(r)
    /\ \E taskID \in {OwnTask, OthersTask, NoSuchTask}, dbOk \in StoreOutcomes :
        LET got == GetByTaskID(tasks, taskID, dbOk)
            rq == Routed(req[r], "GetTask")
        IN  /\ Faulted(dbOk)
            /\ req' = [req EXCEPT ![r] = Continue(
                    IF got.err # "nil" THEN JSON(rq, 404, 40400)
                    ELSE IF rq.snap.exists /\ got.task.client_id # Hex(rq.client)
                    THEN JSON(rq, 403, 40300)
                    ELSE JSON(rq, 200, 20000))]
    /\ UNCHANGED <<clients, buckets, stats, now, tasks, queue, cfg, storeVars,
                   traffic, sig, pool, limiter, exchange, main>>

\* TaskHandler.GetTaskStatus as the route's handler.
ServeGetTaskStatus(r) ==
    /\ AtRoute(r)
    /\ \E taskID \in {OwnTask, OthersTask, NoSuchTask}, dbOk \in StoreOutcomes :
        LET got == GetByTaskID(tasks, taskID, dbOk)
            rq == Routed(req[r], "GetTaskStatus")
        IN  /\ Faulted(dbOk)
            /\ req' = [req EXCEPT ![r] = Continue(
                    IF got.err # "nil" THEN JSON(rq, 404, 40400)
                    ELSE IF rq.snap.exists /\ got.task.client_id # Hex(rq.client)
                    THEN JSON(rq, 403, 40300)
                    ELSE JSON(rq, 200, 20000))]
    /\ UNCHANGED <<clients, buckets, stats, now, tasks, queue, cfg, storeVars,
                   traffic, sig, pool, limiter, exchange, main>>

\* TaskHandler.ListTasks as the route's handler.
ServeListTasks(r) ==
    /\ AtRoute(r)
    /\ \E dbOk \in StoreOutcomes :
        LET rq == Routed(req[r], "ListTasks") IN
        /\ IF rq.snap.exists THEN Faulted(dbOk) ELSE dbOk /\ UNCHANGED faults
        /\ req' = [req EXCEPT ![r] = Continue(
                IF ~rq.snap.exists THEN JSON(rq, 401, 40100)
                ELSE IF ~dbOk THEN JSON(rq, 500, 50000)
                ELSE JSON(rq, 200, 20000))]
    /\ UNCHANGED <<clients, buckets, stats, now, tasks, queue, cfg, storeVars,
                   traffic, sig, pool, limiter, exchange, main>>

QueryNext ==
    \/ \E r \in DOMAIN req : Authenticate(r)
    \/ \E r \in DOMAIN req : RateLimit(r)
    \/ \E r \in DOMAIN req : GetOrCreateBucket(r)
    \/ \E r \in DOMAIN req : TakeTokenStep(r)
    \/ \E r \in DOMAIN req : CheckCalls(r)
    \/ \E r \in DOMAIN req : DeductCalls(r)
    \/ \E r \in DOMAIN req : LogAPICall(r)
    \/ \E r \in DOMAIN req : HandleAsync(r) /\ ~req'[r].async
    \/ \E r \in DOMAIN req : Monitor(r)
    \/ \E r \in DOMAIN req : ServeGetTask(r)
    \/ \E r \in DOMAIN req : ServeGetTaskStatus(r)
    \/ \E r \in DOMAIN req : ServeListTasks(r)
    \/ \E r \in DOMAIN req : LogAPICallAfter(r)
    \/ \E r \in DOMAIN req : DeductCallsAfter(r)

QuerySpec == QueryInit /\ [][QueryNext]_vars

----------------------------------------------------------------------------
(* ResultSpec: what processTask makes of the upstream's answer to one task.
   exchange.up is what the upstream did: whether httpClient.Do failed, the
   status of the response, whether reading its body failed after 'partial' had
   arrived, and the body. A text is the sequence of its parts. exchange.ret is
   what callUpstream returned; exchange.task the task's status, status_code and
   times; exchange.result and exchange.error_message its Result and
   ErrorMessage. *)

UpstreamStatuses == {200, 204, 399, 400, 404, 500}

UpstreamBodies == {"", "body"}

\* What the upstream may do with the request of a task.
UpstreamAnswers ==
    {[do |-> "error", status |-> 0, read |-> "none", body |-> ""]}
    \cup [do : {"ok"}, status : UpstreamStatuses, read : {"ok", "error"},
          body : UpstreamBodies]

\* fmt.Errorf("...: %w", err) and fmt.Errorf("upstream returned error: %d", n)
Errorf(text, arg) == <<text, arg>>

\* callUpstream: (result, statusCode, err); err <<>> is nil.
callUpstream(up) ==
    IF up.do = "error"
    THEN [result |-> "", statusCode |-> 0,
          err |-> Errorf("failed to call upstream: ", "dial error")]
    ELSE IF up.read = "error"
    THEN [result |-> "", statusCode |-> up.status,
          err |-> Errorf("failed to read response: ", "unexpected EOF")]
    ELSE IF up.status >= 400
    THEN [result |-> up.body, statusCode |-> up.status,
          err |-> Errorf("upstream returned error: ", up.status)]
    ELSE [result |-> up.body, statusCode |-> up.status, err |-> <<>>]

ResultInit ==
    /\ QuietInit(FALSE)
    /\ exchange = [pc |-> "dequeued", up |-> CHOOSE up \in UpstreamAnswers : TRUE,
                   ret |-> [result |-> "", statusCode |-> 0, err |-> <<>>],
                   task |-> NewTask(1, Hex("c1"), CallbackURL, 0),
                   result |-> "", error_message |-> <<>>]
    /\ main = NoMain

\* processTask: task.MarkProcessing()
ResultMarkProcessing ==
    /\ exchange.pc = "dequeued"
    /\ exchange' = [exchange EXCEPT !.pc = "upstream",
                                    !.task = MarkProcessing(@, now)]
    /\ UNCHANGED <<quietVars, main>>

\* processTask: result, statusCode, err := wp.callUpstream(task)
ResultCallUpstream ==
    /\ exchange.pc = "upstream"
    /\ \E up \in UpstreamAnswers :
        exchange' = [exchange EXCEPT !.pc = "mark", !.up = up,
                                     !.ret = callUpstream(up)]
    /\ UNCHANGED <<quietVars, main>>

\* processTask: MarkFailed(err.Error()+"|"+result, statusCode) or
\* MarkSuccess(result, statusCode)
ResultMark ==
    /\ exchange.pc = "mark"
    /\ LET ret == exchange.ret IN
        exchange' =
            IF ret.err # <<>>
            THEN [exchange EXCEPT
                    !.pc = "marked",
                    !.task = MarkFailed(@, ret.statusCode, now),
                    !.error_message = ret.err \o <<"|", ret.result>>]
            ELSE [exchange EXCEPT
                    !.pc = "marked",
                    !.task = MarkSuccess(@, ret.statusCode, now),
                    !.result = ret.result]
    /\ UNCHANGED <<quietVars, main>>

ResultNext ==
    \/ ResultMarkProcessing
    \/ ResultCallUpstream
    \/ ResultMark
    \/ Tick

ResultSpec == ResultInit /\ [][ResultNext]_vars

----------------------------------------------------------------------------
(* SideSpec: one request that the handlers before HandleAsync have let through,
   synchronous or asynchronous, and the workers; the store and the queue fail at
   most MaxFaults times. *)

SideInit ==
    /\ WorkerInitRest(TRUE, {1})
    /\ req = <<AtAsyncGate("c1")>>
    /\ tasks = <<>>
    /\ queue = <<>>

SideNext ==
    \/ \E r \in DOMAIN req : HandleAsync(r)
    \/ \E r \in DOMAIN req : AsyncEnqueue(r)
    \/ \E r \in DOMAIN req : Monitor(r)
    \/ \E r \in DOMAIN req : ProxyRequest(r)
    \/ \E r \in DOMAIN req : LogAPICallAfter(r)
    \/ \E r \in DOMAIN req : DeductCallsAfter(r)
    \/ \E w \in 1..MaxWorkers : Dequeue(w)
    \/ \E w \in 1..MaxWorkers : ProcessTask(w)
    \/ \E w \in 1..MaxWorkers : CallUpstream(w)
    \/ \E w \in 1..MaxWorkers : SaveResult(w)
    \/ \E w \in 1..MaxWorkers : CallbackAttempt(w)

SideSpec == SideInit /\ [][SideNext]_vars

----------------------------------------------------------------------------
(* LockSpec: the limiter's locks, one lock operation a step. Two requests of one
   caller run getOrCreateBucket and TakeToken, the sweeper runs its passes and
   a monitor calls GetBucketStats, each again and again. exchange.rw is the
   map's reader-writer lock (its readers, its writer, and the threads blocked in
   Lock, after which no new reader gets in); exchange.map the bucket registered
   for the caller (0: none); exchange.mu the holder of each bucket's mutex;
   exchange.made the buckets created so far; exchange.pc and exchange.held each
   thread's position and the bucket it has a pointer to. *)

MaxBuckets == 2     \* buckets created for the caller in one behaviour

Admitters == {"a1", "a2"}

Threads == Admitters \cup {"sweeper", "monitor"}

\* A mutex that never makes a thread wait: the mutant of Lockable.
LockableAlways(b) == TRUE

\* sync.Mutex.Lock on bucket b returns when nobody holds it.
Lockable(b) == exchange.mu[b] = "none"

\* sync.RWMutex.RLock returns when there is no writer and none is waiting.
RLockable == exchange.rw.writer = "none" /\ exchange.rw.pending = {}

\* sync.RWMutex.Lock returns to a waiting thread when no reader and no writer
\* is left.
WLockable(t) ==
    /\ t \in exchange.rw.pending
    /\ exchange.rw.writer = "none"
    /\ exchange.rw.readers = {}

LockInit ==
    /\ QuietInit(FALSE)
    /\ \E m \in {0, 1} :
        exchange = [rw |-> [readers |-> {}, writer |-> "none", pending |-> {}],
                    map |-> m, made |-> m,
                    mu |-> [b \in 1..MaxBuckets |-> "none"],
                    pc |-> [t \in Threads |-> IF t \in Admitters THEN "rlock" ELSE "idle"],
                    held |-> [t \in Threads |-> 0]]
    /\ main = NoMain

\* getOrCreateBucket: rl.mutex.RLock()
AdmitRLock(t) ==
    /\ exchange.pc[t] = "rlock"
    /\ RLockable
    /\ exchange' = [exchange EXCEPT !.rw.readers = @ \cup {t}, !.pc[t] = "lookup"]
    /\ UNCHANGED <<quietVars, main>>

\* getOrCreateBucket: bucket, exists := rl.buckets[clientID]; rl.mutex.RUnlock()
AdmitLookup(t) ==
    /\ exchange.pc[t] = "lookup"
    /\ exchange' = [exchange EXCEPT
            !.rw.readers = @ \ {t},
            !.held[t] = exchange.map,
            !.pc[t] = IF exchange.map # 0 THEN "reconfigure" ELSE "create"]
    /\ UNCHANGED <<quietVars, main>>

\* getOrCreateBucket: bucket.mutex.Lock() of the bucket found
AdmitReconfigureLock(t) ==
    /\ exchange.pc[t] = "reconfigure"
    /\ Lockable(exchange.held[t])
    /\ exchange' = [exchange EXCEPT !.mu[exchange.held[t]] = t, !.pc[t] = "reconfiguring"]
    /\ UNCHANGED <<quietVars, main>>

\* getOrCreateBucket: the fields are brought to the caller's QPS;
\* bucket.mutex.Unlock(); return bucket
AdmitReconfigureUnlock(t) ==
    /\ exchange.pc[t] = "reconfiguring"
    /\ exchange' = [exchange EXCEPT !.mu[exchange.held[t]] = "none", !.pc[t] = "take"]
    /\ UNCHANGED <<quietVars, main>>

\* getOrCreateBucket: rl.mutex.Lock() is called
AdmitLockCall(t) ==
    /\ exchange.pc[t] = "create"
    /\ exchange' = [exchange EXCEPT !.rw.pending = @ \cup {t}, !.pc[t] = "creating"]
    /\ UNCHANGED <<quietVars, main>>

\* getOrCreateBucket: rl.mutex.Lock() returns
AdmitLock(t) ==
    /\ exchange.pc[t] = "creating"
    /\ WLockable(t)
    /\ exchange' = [exchange EXCEPT !.rw.pending = @ \ {t}, !.rw.writer = t,
                                    !.pc[t] = "created"]
    /\ UNCHANGED <<quietVars, main>>

\* getOrCreateBucket: the second lookup, NewTokenBucket when there is still no
\* bucket, and the deferred rl.mutex.Unlock()
AdmitCreate(t) ==
    /\ exchange.pc[t] = "created"
    /\ LET b == IF exchange.map # 0 THEN exchange.map ELSE exchange.made + 1 IN
        exchange' = [exchange EXCEPT
            !.rw.writer = "none",
            !.map = b,
            !.made = IF exchange.map # 0 THEN @ ELSE @ + 1,
            !.held[t] = b,
            !.pc[t] = "take"]
    /\ UNCHANGED <<quietVars, main>>

\* TakeToken: tb.mutex.Lock()
AdmitTakeLock(t) ==
    /\ exchange.pc[t] = "take"
    /\ Lockable(exchange.held[t])
    /\ exchange' = [exchange EXCEPT !.mu[exchange.held[t]] = t, !.pc[t] = "taking"]
    /\ UNCHANGED <<quietVars, main>>

\* TakeToken: refill, take, and the deferred tb.mutex.Unlock(); RateLimit
\* answers.
AdmitTakeUnlock(t) ==
    /\ exchange.pc[t] = "taking"
    /\ exchange' = [exchange EXCEPT !.mu[exchange.held[t]] = "none", !.pc[t] = "decided"]
    /\ UNCHANGED <<quietVars, main>>

\* cleanup: the ticker fires and rl.mutex.Lock() is called
SweeperLockCall ==
    /\ exchange.pc["sweeper"] = "idle"
    /\ exchange' = [exchange EXCEPT !.rw.pending = @ \cup {"sweeper"},
                                    !.pc["sweeper"] = "locking"]
    /\ UNCHANGED <<quietVars, main>>

\* cleanup: rl.mutex.Lock() returns; the range loop begins
SweeperLock ==
    /\ exchange.pc["sweeper"] = "locking"
    /\ WLockable("sweeper")
    /\ exchange' = [exchange EXCEPT
            !.rw.pending = @ \ {"sweeper"}, !.rw.writer = "sweeper",
            !.held["sweeper"] = exchange.map,
            !.pc["sweeper"] = IF exchange.map # 0 THEN "visit" ELSE "unlock"]
    /\ UNCHANGED <<quietVars, main>>

\* cleanup: bucket.mutex.Lock()
SweeperVisitLock ==
    /\ exchange.pc["sweeper"] = "visit"
    /\ Lockable(exchange.held["sweeper"])
    /\ exchange' = [exchange EXCEPT !.mu[exchange.held["sweeper"]] = "sweeper",
                                    !.pc["sweeper"] = "visiting"]
    /\ UNCHANGED <<quietVars, main>>

\* cleanup: the bucket is deleted from the map when stale; bucket.mutex.Unlock().
\* (A bucket is stale only while another can still be created.)
SweeperVisitUnlock ==
    /\ exchange.pc["sweeper"] = "visiting"
    /\ \E stale \in (IF exchange.made < MaxBuckets THEN BOOLEAN ELSE {FALSE}) :
        exchange' = [exchange EXCEPT
            !.mu[exchange.held["sweeper"]] = "none",
            !.map = IF stale THEN 0 ELSE @,
            !.pc["sweeper"] = "unlock"]
    /\ UNCHANGED <<quietVars, main>>

\* cleanup: rl.mutex.Unlock()
SweeperUnlock ==
    /\ exchange.pc["sweeper"] = "unlock"
    /\ exchange' = [exchange EXCEPT !.rw.writer = "none", !.held["sweeper"] = 0,
                                    !.pc["sweeper"] = "idle"]
    /\ UNCHANGED <<quietVars, main>>

\* GetBucketStats: rl.mutex.RLock(); the range loop begins
MonitorRLock ==
    /\ exchange.pc["monitor"] = "idle"
    /\ RLockable
    /\ exchange' = [exchange EXCEPT
            !.rw.readers = @ \cup {"monitor"},
            !.held["monitor"] = exchange.map,
            !.pc["monitor"] = IF exchange.map # 0 THEN "read" ELSE "unlock"]
    /\ UNCHANGED <<quietVars, main>>

\* GetBucketStats: bucket.mutex.Lock()
MonitorReadLock ==
    /\ exchange.pc["monitor"] = "read"
    /\ Lockable(exchange.held["monitor"])
    /\ exchange' = [exchange EXCEPT !.mu[exchange.held["monitor"]] = "monitor",
                                    !.pc["monitor"] = "reading"]
    /\ UNCHANGED <<quietVars, main>>

\* GetBucketStats: the fields are copied; bucket.mutex.Unlock()
MonitorReadUnlock ==
    /\ exchange.pc["monitor"] = "reading"
    /\ exchange' = [exchange EXCEPT !.mu[exchange.held["monitor"]] = "none",
                                    !.pc["monitor"] = "unlock"]
    /\ UNCHANGED <<quietVars, main>>

\* GetBucketStats: the deferred rl.mutex.RUnlock()
MonitorRUnlock ==
    /\ exchange.pc["monitor"] = "unlock"
    /\ exchange' = [exchange EXCEPT !.rw.readers = @ \ {"monitor"},
                                    !.held["monitor"] = 0,
                                    !.pc["monitor"] = "idle"]
    /\ UNCHANGED <<quietVars, main>>

AdmitStep(t) ==
    \/ AdmitRLock(t)
    \/ AdmitLookup(t)
    \/ AdmitReconfigureLock(t)
    \/ AdmitReconfigureUnlock(t)
    \/ AdmitLockCall(t)
    \/ AdmitLock(t)
    \/ AdmitCreate(t)
    \/ AdmitTakeLock(t)
    \/ AdmitTakeUnlock(t)

SweeperStep ==
    \/ SweeperLockCall
    \/ SweeperLock
    \/ SweeperVisitLock
    \/ SweeperVisitUnlock
    \/ SweeperUnlock

MonitorStep ==
    \/ MonitorRLock
    \/ MonitorReadLock
    \/ MonitorReadUnlock
    \/ MonitorRUnlock

LockNext ==
    \/ \E t \in Admitters : AdmitRLock(t)
    \/ \E t \in Admitters : AdmitLookup(t)
    \/ \E t \in Admitters : AdmitReconfigureLock(t)
    \/ \E t \in Admitters : AdmitReconfigureUnlock(t)
    \/ \E t \in Admitters : AdmitLockCall(t)
    \/ \E t \in Admitters : AdmitLock(t)
    \/ \E t \in Admitters : AdmitCreate(t)
    \/ \E t \in Admitters : AdmitTakeLock(t)
    \/ \E t \in Admitters : AdmitTakeUnlock(t)
    \/ SweeperLockCall
    \/ SweeperLock
    \/ SweeperVisitLock
    \/ SweeperVisitUnlock
    \/ SweeperUnlock
    \/ MonitorRLock
    \/ MonitorReadLock
    \/ MonitorReadUnlock
    \/ MonitorRUnlock

\* The Go runtime schedules every goroutine that can run; a goroutine blocked in
\* Lock or RLock gets the lock when it is free again and again (sync.Mutex hands
\* the lock to a waiter that has starved; a waiting writer keeps new readers
\* out). The sweeper and the monitor need not start a pass, but finish the one
\* they began.
LockSpec ==
    /\ LockInit
    /\ [][LockNext]_vars
    /\ \A t \in Admitters : SF_vars(AdmitStep(t))
    /\ SF_vars(exchange.pc["sweeper"] # "idle" /\ SweeperStep)
    /\ SF_vars(exchange.pc["monitor"] # "idle" /\ MonitorStep)

----------------------------------------------------------------------------
(* Properties of the caller store, under StoreSpec *)

\* C1: in every reachable state of the caller store each caller's call_count is
\* >= 0, whatever sequence of deduct_call_count, update_call_count (recharge,
\* ConsumeCall) and other store operations is applied.
\* Refuted: ConsumeCall is UpdateCallCount(id, -1), an unconditional $inc.
CallCountNonNegative ==
    \A id \in ClientIds : clients[id].call_count >= 0

\* C2: of the N deduct_call_count operations the store answered since a caller's
\* balance was M (no other write to the caller in between), exactly min(N, M)
\* succeeded and max(0, N - M) failed with "insufficient calls", and the balance
\* is M - min(N, M); a deduct on an absent id never succeeds.
DeductAccounting ==
    \A id \in ClientIds :
        LET h == hist[id]
            c == clients[id]
            N == h.ok + h.insuf
        IN  /\ (c.exists /\ h.m0 >= 0) =>
                /\ h.ok = Min(N, h.m0)
                /\ h.insuf = Max(0, N - h.m0)
                /\ c.call_count = h.m0 - Min(N, h.m0)
            /\ ~c.exists =>
                /\ h.ok = 0
                /\ h.last \in {"none", "insufficient calls",
                               "failed to deduct call count"}

\* More deducts than balance: the balance was used up and a further deduct refused.
DeductContended ==
    \E id \in ClientIds :
        /\ clients[id].exists
        /\ hist[id].m0 >= 1
        /\ hist[id].ok = hist[id].m0
        /\ hist[id].insuf >= 1
        /\ hist[id].last = "insufficient calls"

----------------------------------------------------------------------------
(* Properties of the /api middleware chain, under Spec *)

\* The requests whose deduction reached the store and succeeded.
Charged == {r \in DOMAIN req : req[r].deducted >= 1}

\* C3: every request through the chain whose final response status is 200 (here:
\* every request forwarded to the upstream and answered 200)
\* decrements the caller's call_count by exactly 1 and leaves total_count
\* unchanged, also when several requests of the caller are in flight at once.
\* Stated for a store and queue that never fail. Refuted: two requests pass
\* CheckCalls on their own copies of a balance of 1, both are answered 200, and the
\* second DeductCallCount finds no document with call_count > 0.
Every200Charged ==
    \A r \in DOMAIN req :
        (Done(r) /\ req[r].upstream /\ req[r].status = 200 /\ faults = 0) =>
            /\ req[r].deducted = 1
            /\ \A id \in ClientIds : clients[id].total_count = hist[id].m0

\* C4: a request whose final response status is not 200 leaves the caller's
\* call_count and total_count unchanged: it deducts nothing, and the balance is
\* the initial balance less one for each request charged, total_count as it was.
NoChargeUnless200 ==
    /\ \A r \in DOMAIN req :
        /\ req[r].deducted \in {0, 1}
        /\ req[r].status \notin {0, 200} => req[r].deducted = 0
        /\ req[r].deducted = 1 => Done(r) /\ req[r].status = 200
    /\ \A id \in ClientIds :
        /\ clients[id].total_count = hist[id].m0
        /\ clients[id].call_count = hist[id].m0 - Cardinality(Charged)

\* A request that passed the quota check, reached the upstream, was answered with
\* an upstream error and has run its deduct wrapper, the caller having balance.
UpstreamErrorSeen ==
    \E r \in DOMAIN req :
        /\ Done(r)
        /\ req[r].checked /\ req[r].upstream
        /\ req[r].status \in {500, 502, 504}
        /\ clients[req[r].client].call_count > 0

\* C6: every asynchronous submission that is accepted (answered 200, its task
\* persisted and enqueued) decrements the caller's call_count by exactly 1 at
\* submit time, also when it races with other requests of the caller.
\* Stated for a store and queue that never fail. Refuted by the same race as C3:
\* the task is persisted and enqueued before the deduction, whose refusal is only
\* logged.
AcceptedAsyncCharged ==
    \A r \in DOMAIN req :
        (Done(r) /\ req[r].enqueued /\ faults = 0) =>
            /\ req[r].status = 200
            /\ req[r].deducted = 1

\* C7: the stages of a request run in the order of the chain and a rejection ends
\* it: the upstream is called or a task created only after authentication, rate
\* limit and quota check passed; an unauthenticated request takes no token; a
\* rate-limited request is not quota-checked; a request out of quota goes no
\* further.
StageOrder ==
    \A r \in DOMAIN req :
        LET rq == req[r] IN
        /\ Len(rq.ran) <= Len(Chain)
        /\ \A i \in 1..Len(rq.ran) : rq.ran[i] = Chain[i]
        /\ rq.aborted => rq.dir # "down"
        /\ (rq.upstream \/ rq.task) =>
            /\ rq.apiKeySet /\ rq.token = "taken" /\ rq.checked
            /\ Len(rq.ran) >= 6
        /\ (Arrived(r) /\ ~rq.apiKeySet) =>
            /\ rq.ran = <<"Authenticate">>
            /\ rq.token = "none" /\ ~rq.checked
            /\ ~rq.upstream /\ ~rq.task /\ rq.deducted = 0
        /\ rq.token = "refused" =>
            /\ rq.ran = <<"Authenticate", "RateLimit">>
            /\ rq.status = 429 /\ ~rq.checked
            /\ ~rq.upstream /\ ~rq.task /\ rq.deducted = 0
        /\ rq.status = 402 =>
            /\ rq.ran = <<"Authenticate", "RateLimit", "CheckCalls">>
            /\ ~rq.upstream /\ ~rq.task /\ rq.deducted = 0

\* One request refused by the limiter and another that reached the upstream.
RejectedAndServed ==
    \E r1, r2 \in DOMAIN req :
        /\ Done(r1) /\ req[r1].token = "refused"
        /\ Done(r2) /\ req[r2].upstream /\ req[r2].status = 200

\* C8: a missing or unknown X-API-Key yields 401 with code 40001; a known key of
\* a disabled caller yields 403 with code 40002 before signature, rate limit and
\* quota are considered; a store error yields 500; only on success are the caller
\* and api_key attached to the request and the next stage run.
AuthOutcome ==
    \A r \in DOMAIN req :
        LET rq == req[r] IN
        Arrived(r) =>
            /\ (rq.key = "" \/ rq.lookup = "client not found") =>
                rq.status = 401 /\ rq.code = 40001 /\ rq.aborted
            /\ rq.key = "bad" => rq.lookup # "nil"
            /\ rq.lookup = "failed to get client by API key" =>
                rq.status = 500 /\ rq.aborted
            /\ \A id \in ClientIds :
                (rq.lookup = "nil" /\ KeyOf(id) = rq.key
                    /\ clients[id].status = ClientStatusDisabled) =>
                    /\ rq.status = 403 /\ rq.code = 40002 /\ rq.aborted
                    /\ rq.token = "none" /\ ~rq.checked
            /\ rq.apiKeySet = rq.snap.exists
            /\ rq.apiKeySet = (rq.client # "none")
            /\ rq.apiKeySet =>
                /\ rq.lookup = "nil"
                /\ rq.key = KeyOf(rq.client)
                /\ rq.snap.status = ClientStatusActive
                /\ Len(rq.ran) > 1 \/ (rq.dir = "down" /\ rq.idx = 2)
            /\ ~rq.apiKeySet =>
                /\ rq.aborted /\ rq.status \in {401, 403, 500}
                /\ rq.ran = <<"Authenticate">>

\* A disabled caller refused with signatures enabled, and a request with no key.
DisabledRefused ==
    /\ cfg.enable_signature
    /\ \E r \in DOMAIN req :
        Done(r) /\ req[r].lookup = "nil" /\ req[r].status = 403
    /\ \E r \in DOMAIN req : Done(r) /\ req[r].key = "" /\ req[r].status = 401

----------------------------------------------------------------------------
(* Sequential requests, under SeqSpec *)

\* C5: for a caller with quota M whose synchronous requests are issued one after
\* another under the rate limit, against an upstream that answers 200, the first M
\* requests return 200, every later one returns 402 (code 40301) without reaching
\* the upstream, and once the requests outnumber the quota call_count is 0.
SequentialQuota ==
    \A id \in ClientIds :
        LET M == hist[id].m0
            arrived == {r \in DOMAIN req : Arrived(r)}
        IN  /\ \A r \in DOMAIN req :
                Done(r) =>
                    IF r <= M
                    THEN req[r].status = 200 /\ req[r].upstream
                         /\ req[r].deducted = 1
                    ELSE req[r].status = 402 /\ req[r].code = 40301
                         /\ ~req[r].upstream /\ req[r].deducted = 0
            /\ (\A r \in arrived : Done(r)) =>
                clients[id].call_count = Max(0, M - Cardinality(arrived))

\* Quota 2 or more, all requests answered, the last ones with 402, balance 0.
QuotaUsedUp ==
    \E id \in ClientIds :
        /\ hist[id].m0 >= 2
        /\ \A r \in DOMAIN req : Done(r)
        /\ req[hist[id].m0].status = 200
        /\ req[hist[id].m0 + 1].status = 402
        /\ clients[id].call_count = 0

----------------------------------------------------------------------------
(* The limiter, under LimiterSpec and SteadySpec *)

RECURSIVE SumFrom(_, _, _)
SumFrom(f, a, b) == IF a > b THEN 0 ELSE f[a] + SumFrom(f, a + 1, b)

\* C9: over any 1-second window of steady traffic, also one that straddles a
\* refill, the limiter admits at most qps + 1 requests of the caller. A window is
\* TicksPerSec consecutive instants.
SteadyWindow ==
    \A id \in ClientIds :
        \A a \in 1..Len(traffic.adm) :
            a + TicksPerSec - 1 <= Len(traffic.adm) =>
                SumFrom(traffic.adm, a, a + TicksPerSec - 1) <= clients[id].qps + 1

\* Traffic above the caller's qps, a refill behind us, and a window that began
\* before the refill instant and holds it, with admissions on both sides.
WindowOverRefill ==
    \E id \in ClientIds :
        /\ traffic.burst > clients[id].qps
        /\ buckets[id].exists /\ buckets[id].lastRefill > 0
        /\ \E a \in 1..Len(traffic.adm) :
            /\ a + TicksPerSec - 1 <= Len(traffic.adm)
            /\ a < buckets[id].lastRefill + 1
            /\ buckets[id].lastRefill + 1 <= a + TicksPerSec - 1
            /\ traffic.adm[buckets[id].lastRefill + 1] > 0
            /\ SumFrom(traffic.adm, a, a + TicksPerSec - 1) >= clients[id].qps

\* C10: from a fresh bucket of a caller with QPS q, of the k requests that reach
\* TakeToken before any refill exactly min(k, q) are admitted and the others are
\* answered 429 with code 42902; a refused request takes no token.
FreshBucketAdmits ==
    /\ \A id \in ClientIds :
        (buckets[id].exists /\ stats[id].fresh) =>
            LET k == stats[id].adm + stats[id].rej
                q == clients[id].qps
            IN  /\ buckets[id].capacity = q
                /\ stats[id].adm = Min(k, q)
                /\ stats[id].rej = k - Min(k, q)
                /\ buckets[id].tokens = q - stats[id].adm
                /\ stats[id].adm =
                    Cardinality({r \in DOMAIN req : req[r].token = "taken"})
                /\ stats[id].rej =
                    Cardinality({r \in DOMAIN req : req[r].token = "refused"})
    /\ \A r \in DOMAIN req :
        /\ req[r].token = "refused" =>
            req[r].status = 429 /\ req[r].code = 42902 /\ req[r].aborted
        /\ req[r].token = "taken" => req[r].status = 0 /\ ~req[r].aborted

\* A fresh bucket emptied and a further request refused, some time after its
\* creation.
FreshBucketExhausted ==
    \E id \in ClientIds :
        /\ buckets[id].exists /\ stats[id].fresh
        /\ stats[id].adm = clients[id].qps
        /\ stats[id].rej >= 1
        /\ now > buckets[id].lastRefill

\* C11: when getOrCreateBucket hands a bucket to a request, on every path through
\* the lookup, the bucket's refill_rate and capacity are the QPS the request
\* carries and its tokens are at most that capacity, so that the request's
\* admission is decided on a bucket that follows the caller's QPS.
\* Refuted on the double-check path: a request that found no bucket and then, under
\* the write lock, finds the one another request created gets it as it is.
BucketFollowsQPS ==
    \A r \in DOMAIN req :
        req[r].ret.exists =>
            /\ req[r].ret.refillRate = req[r].snap.qps
            /\ req[r].ret.capacity = req[r].snap.qps
            /\ req[r].ret.tokens <= req[r].ret.capacity

\* C12: each sweeper pass deletes every bucket whose last_refill is more than ten
\* minutes before the time the pass read, and no other bucket; a request that then
\* finds no bucket for its caller creates one with tokens = capacity =
\* refill_rate = the QPS it carries, stamped with the time of creation.
SweepExact ==
    /\ \A v \in limiter.visits :
        /\ v.deleted = (limiter.at - v.last > SweepAgeSeconds * TicksPerSec)
        /\ limiter.lock = "sweeper" => buckets[v.id].exists = ~v.deleted
    /\ limiter.swept =>
        \A id \in (DOMAIN buckets) \ limiter.todo :
            buckets[id].exists =>
                limiter.at - buckets[id].lastRefill
                    <= SweepAgeSeconds * TicksPerSec
    /\ \A r \in DOMAIN req :
        /\ req[r].path = "created" =>
            /\ req[r].ret.tokens = req[r].snap.qps
            /\ req[r].ret.capacity = req[r].snap.qps
            /\ req[r].ret.refillRate = req[r].snap.qps
            /\ req[r].ret.lastRefill <= now
        /\ (req[r].path # "none" /\ req[r].ref = 0) =>
            buckets[req[r].client].exists

\* A pass over two buckets has deleted the one that was stale and kept the one
\* that was exactly ten minutes old, and a later request of the first caller has
\* created a new bucket.
SweptAndRecreated ==
    /\ limiter.lock = "free"
    /\ \E v, w \in limiter.visits :
        /\ v.deleted /\ ~w.deleted
        /\ limiter.at - w.last = SweepAgeSeconds * TicksPerSec
        /\ buckets[v.id].exists /\ buckets[w.id].exists
        /\ buckets[v.id].lastRefill >= limiter.at
        /\ \E r \in DOMAIN req :
            req[r].client = v.id /\ req[r].path = "created"

----------------------------------------------------------------------------
(* The signature validator, under SigSpec *)

\* |a|
Abs(a) == IF a < 0 THEN -a ELSE a

\* C13: with signature verification enabled, a request correctly signed with the
\* caller's secret is accepted if and only if |now - ts| <= timeWindow, for every
\* X-Timestamp that parses as a 64-bit integer, far past, far future and negative
\* ones included; a timestamp outside the window is answered 'timestamp expired'.
\* Refuted: validateTimestamp multiplies the difference by time.Second in int64;
\* for a timestamp far enough from now the product wraps around to a value that
\* is not above the window, and the request is accepted.
TimestampWindow ==
    (sig.presented.exists /\ sig.presented = sig.signed) =>
        LET ts == ParseInt(sig.presented.timestamp).val
            inside == Abs(sig.at - ts) * Second <= sig.timeWindow
        IN  /\ (sig.verdict = "nil") <=> inside
            /\ ~inside => sig.verdict = "timestamp expired"

\* The request presented carries the signature of the signed one and differs from
\* it in method, path, timestamp string or body.
Tampered ==
    /\ sig.presented.exists
    /\ sig.presented.signature = sig.signed.signature
    /\ sig.presented # sig.signed

\* C14 as stated: a request that presents the signature of another one is refused
\* with 'invalid signature'; the unmodified request is accepted on every replay
\* inside the window.
TamperedInvalidSignature ==
    /\ Tampered => sig.verdict = "invalid signature"
    /\ (sig.presented.exists /\ sig.presented = sig.signed
            /\ Abs(sig.at - ParseInt(sig.signed.timestamp).val) * Second <= sig.timeWindow)
        => sig.verdict = "nil"

\* C14, corrected: for a fixed caller secret, a request that presents the signature
\* of another one and differs from it in method, path, timestamp string or body is
\* always refused; the answer is 'invalid signature' when its timestamp header
\* passes the timestamp checks, which come first, and otherwise the timestamp's
\* own error (missing, malformed or expired). The unmodified request is accepted
\* every time it is presented inside the window.
TamperedRefused ==
    /\ Tampered =>
        LET stamp == sig.presented.timestamp
            checks == IF stamp = <<>> THEN "missing timestamp"
                      ELSE ValidateTimestamp(stamp, sig.at, sig.timeWindow)
        IN  /\ sig.verdict # "nil"
            /\ sig.verdict = IF checks = "nil" THEN "invalid signature" ELSE checks
    /\ (sig.presented.exists /\ sig.presented = sig.signed
            /\ Abs(sig.at - ParseInt(sig.signed.timestamp).val) * Second <= sig.timeWindow)
        => sig.verdict = "nil"

\* The signed request was accepted at two different seconds, and then presented
\* with another method under the same signature and timestamp, inside the window.
ReplayedThenTampered ==
    /\ sig.replayed
    /\ Tampered
    /\ sig.presented.method # sig.signed.method
    /\ sig.presented.timestamp = sig.signed.timestamp
    /\ ValidateTimestamp(sig.presented.timestamp, sig.at, sig.timeWindow) = "nil"
    /\ sig.verdict = "invalid signature"

----------------------------------------------------------------------------
(* The worker pool, under WorkerSpec and FairWorkerSpec *)

\* The callback sequence of task t is over: attempts were made and no worker is
\* in the loop of executeCallback for t.
CallbackEnded(t) ==
    /\ pool.log[t].attempts # <<>>
    /\ \A w \in DOMAIN pool.workers :
        ~(pool.workers[w].pc = "callback" /\ pool.workers[w].task.task_id = t)

\* Task t has been dequeued, is stored with status success or failed, and a
\* callback for it went out.
Completed(t) ==
    /\ pool.log[t].got # {}
    /\ t \in DOMAIN tasks
    /\ tasks[t].status \in {TaskStatusSuccess, TaskStatusFailed}
    /\ pool.log[t].attempts # <<>>

\* C15: when nothing fails (queue, task store, upstream and callback endpoint
\* answer), at least one worker runs and workers are scheduled fairly, every task
\* whose submission was accepted is eventually dequeued, reaches status success or
\* failed in the task store, and has its callback sent.
AcceptedTaskCompletes ==
    \A t \in 1..(MaxTasks + 1) : (req[t].enqueued ~> Completed(t))

\* Every submission was accepted and every task has completed, one of them as
\* failed.
AllTasksCompleted ==
    /\ \A t \in DOMAIN req : req[t].enqueued /\ Completed(t)
    /\ \E t \in DOMAIN req : tasks[t].status = TaskStatusFailed

\* C16: with N workers on one queue each enqueued task is delivered to at most one
\* worker: no task is processed twice, its upstream is called at most once, and
\* its document is written only by the worker that dequeued it.
DeliveredOnce ==
    \A t \in DOMAIN pool.log :
        /\ Cardinality(pool.log[t].got) <= 1
        /\ Cardinality({w \in DOMAIN pool.workers :
                            pool.workers[w].task.task_id = t}) <= 1
        /\ pool.log[t].upstream <= 1
        /\ pool.log[t].writers \subseteq pool.log[t].got

\* A task went through one worker, upstream call and document writes included,
\* while another worker was polling the queue.
ProcessedBesideIdleWorker ==
    \E t \in DOMAIN pool.log, w, v \in DOMAIN pool.workers :
        /\ w # v
        /\ pool.log[t].got = {w}
        /\ pool.log[t].writers = {w}
        /\ pool.log[t].upstream = 1
        /\ CallbackEnded(t)
        /\ pool.workers[v].pc = "dequeue"
        /\ pool.log[t].lostUpdates = 0

StatusRank(status) ==
    IF status = TaskStatusPending THEN 0
    ELSE IF status = TaskStatusProcessing THEN 1
    ELSE 2

\* C17: a task's stored status only moves forward along pending -> processing ->
\* {success, failed, timeout}: no step of any worker takes it back to an earlier
\* status or out of a terminal status, whatever the interleaving and whichever
\* store update fails; and every stored task in a terminal status has
\* completed_at set. (A failed first update makes the stored status go from
\* pending to the terminal status in one step.)
StatusForward ==
    /\ [](\A t \in DOMAIN tasks :
            IsCompleted(tasks[t]) => tasks[t].completed_at # NilTime)
    /\ [][\A t \in DOMAIN tasks :
            /\ t \in DOMAIN tasks'
            /\ StatusRank(tasks'[t].status) >= StatusRank(tasks[t].status)
            /\ IsCompleted(tasks[t]) => tasks'[t].status = tasks[t].status]_vars

\* A task is stored as started and terminal although its first store update
\* failed.
TerminalAfterLostUpdate ==
    \E t \in DOMAIN tasks :
        /\ IsCompleted(tasks[t])
        /\ tasks[t].started_at # NilTime
        /\ pool.log[t].lostUpdates > 0

\* C18: a callback request goes out for a task only when the task is in a terminal
\* status and has a non-empty callback_url, never for a pending or processing
\* task, and the status in the payload is that terminal status: the task the
\* worker holds, which the payload is made of, is terminal at every attempt, and
\* so is the stored task, with the same status, unless a store update of the
\* task failed.
CallbackOnlyTerminal ==
    /\ \A t \in DOMAIN pool.log : \A k \in DOMAIN pool.log[t].attempts :
        LET a == pool.log[t].attempts[k] IN
        /\ a.status \in {TaskStatusSuccess, TaskStatusFailed, TaskStatusTimeout}
        /\ a.url # ""
        /\ a.completed_at # NilTime
        /\ pool.log[t].lostUpdates = 0 => a.stored = a.status
    /\ \A w \in DOMAIN pool.workers :
        pool.workers[w].pc = "callback" =>
            /\ IsCompleted(pool.workers[w].task)
            /\ pool.workers[w].task.callback_url # ""

\* A callback went out for a task that failed upstream, carrying status failed,
\* the stored status.
FailedTaskCalledBack ==
    \E t \in DOMAIN pool.log :
        /\ pool.log[t].attempts # <<>>
        /\ pool.log[t].attempts[1].status = TaskStatusFailed
        /\ pool.log[t].attempts[1].stored = TaskStatusFailed
        /\ pool.log[t].upstream = 1

FailedCallbackRecorded ==
    \A t \in DOMAIN pool.log :
        (/\ CallbackEnded(t)
         /\ Len(pool.log[t].attempts) = 3
         /\ \A k \in 1..3 : pool.log[t].attempts[k].outcome # "200")
        => tasks[t].callback_status # ""

----------------------------------------------------------------------------
(* Properties of the headers of an async task, under HeaderSpec *)

\* The names HTTP treats as the name k: header names are case-insensitive.
SameHeader(k, h) == LowerCase(k) = LowerCase(h)

\* C21: the headers stored in a task at async submission, and the headers the
\* worker sends to the upstream, never contain Authorization, X-API-Key,
\* X-Signature, X-Secret or Cookie, in any spelling.
\* Refuted: net/http presents X-API-Key as X-Api-Key, which isSensitiveHeader
\* compares with "X-API-Key" by == and lets through.
NoSensitiveHeaderStored ==
    \A k \in DOMAIN exchange.task \cup DOMAIN exchange.sent :
        \A h \in sensitiveHeaders : ~SameHeader(k, h)

----------------------------------------------------------------------------
(* Properties of the async gate when the queue refuses, under Spec *)

\* Request r is an async submission whose task was stored and whose enqueue
\* failed.
EnqueueFailed(r) ==
    /\ req[r].task
    /\ ~req[r].enqueued
    /\ ~AtStage(r, "HandleAsync", 1)

\* C22: when enqueueing fails during an async submission, the caller receives
\* 503 with code 50300, no task handle is returned (the answer is not the 200
\* that carries the task id), the handlers after the async gate and the proxy
\* handler do not run, and the request deducts nothing from the caller's
\* call_count.
EnqueueFailureAnswer ==
    \A r \in DOMAIN req :
        EnqueueFailed(r) =>
            /\ req[r].status = 503 /\ req[r].code = 50300
            /\ req[r].aborted
            /\ \A i \in DOMAIN req[r].ran : req[r].ran[i] \notin {"Monitor", "ProxyRequest"}
            /\ ~req[r].upstream
            /\ req[r].deducted = 0

\* A request whose enqueue failed has been answered, past the billing stage, while
\* its caller had calls left.
EnqueueFailedAndDone ==
    \E r \in DOMAIN req :
        /\ EnqueueFailed(r) /\ Done(r)
        /\ req[r].checked
        /\ clients[req[r].client].call_count > 0

----------------------------------------------------------------------------
(* Properties of the task queue, under QueueSpec *)

\* The tasks the Dequeue calls returned, in the order of the calls.
Delivered == [i \in DOMAIN exchange.delivered |-> exchange.delivered[i].task.task_id]

\* The place of task t in sequence s, 0 when it is not in it.
PlaceIn(t, s) == IF \E i \in DOMAIN s : s[i] = t
                 THEN CHOOSE i \in DOMAIN s : s[i] = t ELSE 0

\* C23: the task queue is FIFO across producers: the tasks come out of Dequeue in
\* the order in which they went in, whichever consumer asks, so of two tasks the
\* first of which was enqueued before the Enqueue of the second was called, the
\* second is never returned before the first; on an empty queue Dequeue returns
\* nil and no error; with a cancelled context it returns the cancellation error.
QueueFIFO ==
    /\ Delivered = SubSeq(exchange.pushed, 1, Len(Delivered))
    /\ \A p \in exchange.before :
        PlaceIn(p[2], Delivered) # 0 =>
            /\ PlaceIn(p[1], Delivered) # 0
            /\ PlaceIn(p[1], Delivered) < PlaceIn(p[2], Delivered)
    /\ \A d \in exchange.answers :
        /\ (d.ctx = "live" /\ d.reply = "ok" /\ d.empty) => d.nil /\ d.err = "nil"
        /\ d.ctx = "cancelled" => d.nil /\ d.err = "context.Canceled"
        /\ (d.ctx = "live" /\ d.reply = "ok" /\ ~d.empty) => ~d.nil /\ d.err = "nil"

\* Two tasks enqueued one after the other came out, by two consumers; a Dequeue
\* found the queue empty and another the context cancelled.
TwoDeliveredThenEmpty ==
    /\ \E p \in exchange.before : PlaceIn(p[2], Delivered) # 0
    /\ \E i, j \in DOMAIN exchange.delivered :
        exchange.delivered[i].by # exchange.delivered[j].by
    /\ \E d \in exchange.answers : d.ctx = "live" /\ d.empty /\ d.reply = "ok"
    /\ \E d \in exchange.answers : d.ctx = "cancelled"

----------------------------------------------------------------------------
(* Properties of the task endpoints, under TaskSpec *)

\* The latest answer carries data of task t.
Discloses(t) ==
    LET resp == exchange.resp IN
    \/ resp.data # <<>> /\ resp.data.task_id = t
    \/ \E i \in DOMAIN resp.list : resp.list[i].task_id = t

\* C24: GET /api/tasks/:task_id and GET /api/tasks/:task_id/status answer a
\* request for a stored task with the task's data (200) exactly when the caller
\* that asks is the one that submitted it; for a task of another caller the
\* answer is 403 with code 40300 and carries nothing of the task; the list
\* endpoint returns only tasks the caller submitted. (A task that is not found,
\* or a store that fails, gives 404.)
TaskOwnership ==
    LET resp == exchange.resp IN
    /\ \A t \in DOMAIN tasks : Discloses(t) => exchange.owner[t] = resp.caller
    /\ resp.endpoint \in {"GetTask", "GetTaskStatus"} =>
        /\ resp.status = 200 =>
            /\ resp.task_id \in DOMAIN tasks
            /\ exchange.owner[resp.task_id] = resp.caller
            /\ Discloses(resp.task_id)
        /\ (resp.task_id \in DOMAIN tasks
                /\ exchange.owner[resp.task_id] = resp.caller)
            => resp.status \in {200, 404}
        /\ (resp.task_id \in DOMAIN tasks
                /\ exchange.owner[resp.task_id] # resp.caller)
            => /\ resp.status \in {403, 404}
               /\ resp.status = 403 => resp.code = 40300
               /\ resp.data = <<>>
        /\ resp.status = 403 =>
            /\ resp.task_id \in DOMAIN tasks
            /\ exchange.owner[resp.task_id] # resp.caller

\* With tasks of both callers in the store, a caller was refused the other's task.
RefusedOthersTask ==
    /\ \E t, u \in DOMAIN tasks : exchange.owner[t] # exchange.owner[u]
    /\ exchange.resp.status = 403

----------------------------------------------------------------------------
(* Properties of a finished task as its owner reads it, under WorkerSpec *)

\* What GET /api/tasks/:task_id gives the owner of task t from store ts.
OwnerReads(ts, t) == GetByTaskID(ts, t, TRUE).task

\* C25: once a task has made its terminal transition in the task store, repeated
\* GET /api/tasks/:task_id by its owner return the same document: no step changes
\* what the owner reads of a task whose stored status is terminal.
\* Refuted: every callback attempt increments the stored callback_attempts, and
\* the callbacks come after the terminal update.
TerminalTaskStable ==
    [][\A t \in DOMAIN tasks :
        IsCompleted(tasks[t]) => OwnerReads(tasks', t) = OwnerReads(tasks, t)]_vars

----------------------------------------------------------------------------
(* Properties of WorkerPool.Stop, under StopSpec *)

\* Worker w has returned from its loop.
Exited(w) == pool.workers[w].pc = "returned"

\* Task t was processed to its end: its upstream was called once, its terminal
\* status is stored, and its callback sequence ran to a 2xx answer or to the
\* last attempt.
DrainedToEnd(t) ==
    LET a == pool.log[t].attempts IN
    /\ pool.log[t].upstream = 1
    /\ tasks[t].status \in {TaskStatusSuccess, TaskStatusFailed}
    /\ a # <<>>
    /\ a[Len(a)].outcome = "200" \/ Len(a) = MaxRetries

----------------------------------------------------------------------------
(* Properties of the shutdown, under ShutdownSpec *)

\* Request r is in the hands of a handler.
InFlight(r) == ~Done(r)

\* C27: on SIGINT/SIGTERM the process stops accepting, then stops the worker
\* pool, then closes the queue, then closes the stores: no request is admitted and
\* no task is enqueued once the worker pool has begun stopping, and neither the
\* queue nor a store is closed while a worker or a request handler still uses it.
\* Refuted: main never stops the server; it accepts and serves until the process
\* exits.
ShutdownOrder ==
    /\ [][/\ Len(req') > Len(req) => pool.stop = "none"
          /\ \A r \in DOMAIN req :
                (req'[r].enqueued /\ ~req[r].enqueued) => pool.stop = "none"]_vars
    /\ [](~main.queueOpen =>
            /\ \A w \in DOMAIN pool.workers : pool.workers[w].pc = "returned"
            /\ \A r \in DOMAIN req : ~InFlight(r))
    /\ [](~main.storesOpen => \A r \in DOMAIN req : ~InFlight(r))

----------------------------------------------------------------------------
(* Properties of the answer to an upstream error, under ErrorSpec *)

\* Piece a, or pieces a b, or a b c, stand in text t one after the other.
Has1(t, a) == \E i \in DOMAIN t : t[i] = a

Has2(t, a, b) == \E i \in DOMAIN t : i < Len(t) /\ t[i] = a /\ t[i + 1] = b

Has3(t, a, b, c) ==
    \E i \in DOMAIN t : i + 1 < Len(t) /\ t[i] = a /\ t[i + 1] = b /\ t[i + 2] = c

\* C28: an upstream transport error on the synchronous path is classified by its
\* text: with 'timeout' or 'deadline exceeded' in it the answer is 504 with code
\* 50401; otherwise with 'connection refused' or 'no such host' in it, 502 with
\* code 50402 and the upstream_message of an unavailable upstream; otherwise 502
\* with code 50402; one response is written and the chain is aborted.
UpstreamErrorClass ==
    exchange.writes > 0 =>
        LET t == exchange.text
            slow == Has1(t, "timeout") \/ Has2(t, "deadline", "exceeded")
            down == Has2(t, "connection", "refused") \/ Has3(t, "no", "such", "host")
            rq == exchange.rq
        IN  /\ exchange.writes = 1
            /\ rq.aborted
            /\ rq.dir # "down"
            /\ slow => rq.status = 504 /\ rq.code = 50401
            /\ (~slow /\ down) =>
                    /\ rq.status = 502 /\ rq.code = 50402
                    /\ exchange.message = "unavailable"
            /\ (~slow /\ ~down) =>
                    /\ rq.status = 502 /\ rq.code = 50402
                    /\ exchange.message = "text"

\* An error that says both 'connection refused' and, after it, 'timeout' was
\* answered.
RefusedAndTimeoutAnswered ==
    /\ exchange.writes = 1
    /\ Has2(exchange.text, "connection", "refused")
    /\ exchange.text[Len(exchange.text)] = "timeout"

----------------------------------------------------------------------------
(* Properties of the logged response body, under StreamSpec *)

\* The lines of a streamed body that are 'data: <json>' frames of type
\* 'complete' or 'error', in order.
FinalFrames(lines) ==
    SelectSeq(lines, LAMBDA l :
        /\ l.lead = "data: "
        /\ l.json.valid
        /\ l.json.type \in {"complete", "error"})

\* C29: for a request whose path contains '/stream', the response_body of the
\* call log is the JSON of the last 'data: <json>' frame of type 'complete' or
\* 'error' in the streamed body, empty when there is none, and the client has
\* received the upstream bytes unchanged and in order.
LastFinalFrameLogged ==
    (exchange.read /\ exchange.isStreamRequest) =>
        LET final == FinalFrames(exchange.upstream) IN
        /\ exchange.client = exchange.upstream
        /\ exchange.body = IF final = <<>> THEN <<>> ELSE <<final[Len(final)].json>>

\* What the code does keep: the client's bytes are the upstream's, and the body
\* logged is empty or one of the frames of type 'complete' or 'error'.
SomeFinalFrameLogged ==
    (exchange.read /\ exchange.isStreamRequest) =>
        LET final == FinalFrames(exchange.upstream) IN
        /\ exchange.client = exchange.upstream
        /\ exchange.body = IF final = <<>> THEN <<>> ELSE <<final[1].json>>

\* A stream with two frames of type 'complete' or 'error' was logged.
TwoFinalFramesLogged ==
    /\ exchange.read
    /\ exchange.isStreamRequest
    /\ Len(FinalFrames(exchange.upstream)) = 2

----------------------------------------------------------------------------
(* Properties of the call log, under Spec *)

\* C30: every request the gateway has processed on an /api route, whatever its
\* outcome, has its call-log record, and the record carries the request's final
\* HTTP status.
EveryRequestLogged ==
    \A r \in DOMAIN req :
        Done(r) => req[r].logged = WriterStatus(req[r])

\* What the code does keep: a request that came as far as LogAPICall has its
\* record made with the final status, and a request rejected before has none.
LoggedFromLogAPICall ==
    \A r \in DOMAIN req :
        Done(r) =>
            req[r].logged =
                IF \E i \in DOMAIN req[r].ran : req[r].ran[i] = "LogAPICall"
                THEN WriterStatus(req[r]) ELSE 0

----------------------------------------------------------------------------
(* Properties of the task query endpoints, under QuerySpec *)

\* C31: serving the task query endpoints changes no task document and no caller
\* record, the caller's call_count included.
TaskQueriesReadOnly == [][clients' = clients /\ tasks' = tasks]_vars

\* What the code does keep: no task document changes, and a caller record
\* changes only by the deduction that follows a query answered 200.
TaskQueriesCharged ==
    [][/\ tasks' = tasks
       /\ clients' # clients =>
            \E r \in DOMAIN req :
                /\ req[r].dir = "up" /\ Chain[req[r].idx] = "DeductCalls"
                /\ WriterStatus(req[r]) = 200
                /\ req'[r].deducted = req[r].deducted + 1]_vars

----------------------------------------------------------------------------
(* Properties of the worker loop, under WorkerSpec *)

\* C32: a worker leaves its loop only when the pool's context is cancelled: a
\* dequeue error that is not the cancellation does not end it, and the number of
\* live workers stays MaxWorkers until Stop is called.
WorkersLiveUntilStop ==
    pool.ctx = "live" =>
        \A w \in DOMAIN pool.workers : pool.workers[w].pc # "returned"

----------------------------------------------------------------------------
(* Properties of the recorded result, under ResultSpec *)

\* The upstream's answer never arrived whole: the call failed, or the read of
\* the body did.
TransportError(up) == up.do = "error" \/ up.read = "error"

\* C33: after the upstream call the task is, on a transport error, failed with
\* status_code 0 and an error message that is the error, '|', and the partial
\* body; on an upstream status >= 400, failed with the response body as the
\* error message and the upstream status as status_code; otherwise success with
\* the response body as result and the upstream status as status_code;
\* completed_at is stamped in all three cases.
ResultRecorded ==
    exchange.pc = "marked" =>
        LET up == exchange.up
            task == exchange.task
            msg == exchange.error_message
        IN  /\ task.completed_at # NilTime
            /\ TransportError(up) =>
                /\ task.status = TaskStatusFailed
                /\ task.status_code = 0
                /\ Len(msg) = 4 /\ msg[3] = "|"
            /\ (~TransportError(up) /\ up.status >= 400) =>
                /\ task.status = TaskStatusFailed
                /\ task.status_code = up.status
                /\ msg = <<up.body>>
            /\ (~TransportError(up) /\ up.status < 400) =>
                /\ task.status = TaskStatusSuccess
                /\ task.status_code = up.status
                /\ exchange.result = up.body

\* What the code does record: the error message is always the error of
\* callUpstream, '|', and the result; the status code is 0 only when the call
\* itself failed.
ResultRecordedAsCoded ==
    exchange.pc = "marked" =>
        LET up == exchange.up
            task == exchange.task
            msg == exchange.error_message
        IN  /\ task.completed_at \in 0..now
            /\ up.do = "error" =>
                /\ task.status = TaskStatusFailed /\ task.status_code = 0
                /\ msg = <<"failed to call upstream: ", "dial error", "|", "">>
            /\ (up.do = "ok" /\ up.read = "error") =>
                /\ task.status = TaskStatusFailed /\ task.status_code = up.status
                /\ msg = <<"failed to read response: ", "unexpected EOF", "|", "">>
            /\ (~TransportError(up) /\ up.status >= 400) =>
                /\ task.status = TaskStatusFailed /\ task.status_code = up.status
                /\ msg = <<"upstream returned error: ", up.status, "|", up.body>>
            /\ (~TransportError(up) /\ up.status < 400) =>
                /\ task.status = TaskStatusSuccess /\ task.status_code = up.status
                /\ exchange.result = up.body /\ msg = <<>>

----------------------------------------------------------------------------
(* Properties of the side-channel operations, under SideSpec *)

----------------------------------------------------------------------------
(* Properties of the submitted tasks, under Spec *)

\* C35: once a submission has been answered, a task of it that is in the task
\* store with status pending was enqueued: a submission that failed leaves no
\* pending task behind.
PendingTasksEnqueued ==
    \A t \in DOMAIN tasks :
        (Done(t) /\ tasks[t].status = TaskStatusPending) => req[t].enqueued

\* What the code does keep: a task stored and not enqueued belongs to a
\* submission still in HandleAsync or to one answered 503.
UnqueuedTaskAnswered503 ==
    \A t \in DOMAIN tasks :
        (Done(t) /\ ~req[t].enqueued) => req[t].status = 503 /\ req[t].code = 50300

----------------------------------------------------------------------------
(* Properties of the callback payload, under WorkerSpec *)

\* C36: every callback attempt of a task, the first and each retry, sends the
\* same complete payload: no attempt fails for a request body that an earlier
\* attempt has consumed, and status and completed_at are those of the first
\* attempt.
CallbackPayloadComplete ==
    \A t \in DOMAIN pool.log :
        LET attempts == pool.log[t].attempts IN
        \A i \in DOMAIN attempts :
            /\ attempts[i].outcome # "drained"
            /\ attempts[i].status = attempts[1].status
            /\ attempts[i].completed_at = attempts[1].completed_at

\* What the code does keep: the payload is built once, and a retry finds the
\* body consumed exactly when an earlier attempt got as far as sending it.
RetryDrainedAfterSend ==
    \A t \in DOMAIN pool.log :
        LET attempts == pool.log[t].attempts IN
        \A i \in DOMAIN attempts :
            /\ attempts[i].status = attempts[1].status
            /\ attempts[i].completed_at = attempts[1].completed_at
            /\ attempts[i].outcome = "drained" <=>
                    \E j \in 1..(i - 1) : attempts[j].outcome # "refused"

----------------------------------------------------------------------------
(* Properties of the buckets in use, under SweepSpec *)

\* C37: every token taken for a caller is taken from the bucket that the
\* limiter map holds for that caller at the moment of the take, also when the
\* sweeper deletes buckets while requests hold them.
TakeFromRegisteredBucket ==
    [][\A r \in DOMAIN req :
            (AtStage(r, "RateLimit", 3) /\ req'[r] # req[r]) =>
                /\ req[r].ref = 0
                /\ buckets[req[r].client].exists]_vars

\* What the code does keep: a request takes its token from a bucket outside the
\* map only when the sweeper deleted that bucket after the request's lookup.
OrphanOnlyBySweep ==
    \A r \in DOMAIN req :
        req[r].ref # 0 =>
            /\ limiter.swept
            /\ req[r].ref \in DOMAIN limiter.orphans
            /\ req[r].dir = "down" /\ Chain[req[r].idx] = "RateLimit"

----------------------------------------------------------------------------
(* Properties of the limiter's locks, under LockSpec *)

\* The threads inside a critical section of bucket b's mutex.
InBucket(b) ==
    {t \in Threads :
        /\ exchange.held[t] = b
        /\ exchange.pc[t] \in {"reconfiguring", "taking", "visiting", "reading"}}

\* C38: the limiter's locking is deadlock-free and exclusive: no two threads
\* are inside the critical section of the same bucket at the same time, and
\* every request that enters the rate-limit stage eventually has its decision.
LimiterLocksLive ==
    /\ [](\A b \in 1..MaxBuckets : Cardinality(InBucket(b)) <= 1)
    /\ \A t \in Admitters : <>(exchange.pc[t] = "decided")

\* Both requests have their decision, one from a bucket the sweeper had deleted
\* and the other from the bucket created after it.
DecidedAroundSweep ==
    /\ \A t \in Admitters : exchange.pc[t] = "decided"
    /\ exchange.held["a1"] # exchange.held["a2"]

----------------------------------------------------------------------------
(* Properties of the status update, under StoreSpec *)

\* C39: a status update changes only the status of the caller: it leaves
\* call_count and total_count as the store has them, also when deductions or
\* recharges of the caller have run since the update read the document.
StatusUpdateKeepsCounts ==
    [][\A id \in ClientIds :
            (adminOp[id].active /\ ~adminOp'[id].active) =>
                /\ clients'[id].call_count = clients[id].call_count
                /\ clients'[id].total_count = clients[id].total_count]_vars

\* What the code does keep: the status update writes back the counters it read.
StatusUpdateWritesCountsRead ==
    [][\A id \in ClientIds :
            (adminOp[id].active /\ ~adminOp'[id].active /\ clients[id].exists) =>
                /\ clients'[id].call_count = adminOp[id].doc.call_count
                /\ clients'[id].total_count = adminOp[id].doc.total_count]_vars

----------------------------------------------------------------------------
(* Properties of the two counters, under StoreSpec *)

\* C40: for every caller, in every reachable state, call_count <= total_count,
\* so that the used-calls figure total_count - call_count of the statistics is
\* never negative.
CallCountWithinTotal ==
    \A id \in ClientIds :
        /\ clients[id].call_count <= clients[id].total_count
        /\ clients[id].total_count - clients[id].call_count >= 0

\* A caller created with the largest quota has been recharged by the largest
\* amount and has used calls since.
RechargedAndUsed ==
    \E id \in ClientIds :
        /\ clients[id].exists
        /\ clients[id].total_count = MaxQuota + MaxRecharge
        /\ clients[id].call_count < clients[id].total_count

====
